---- MODULE Spec2Model ----
(***************************************************************************)
(* A model of the image optimizer's execution machinery: the job state     *)
(* machine (core/jobs.ts), the per-file task (core/pipeline.ts), the       *)
(* atomic writer (adapters/fs/atomicWrite.ts), the worker pool             *)
(* (optimizer/workerPool.ts), the run coordinator (main.ts and the run     *)
(* service) and the candidate pipeline (optimizer/pipeline.ts).            *)
(***************************************************************************)
EXTENDS Integers, Sequences, FiniteSets, TLC

(***************************************************************************)
(* Bounds of the model.                                                    *)
(***************************************************************************)
MaxCalls == 5

MaxWrites == 2

MaxDirectFiles == 2

MaxRunFiles == 3

MaxInputFiles == 2

(***************************************************************************)
(* core/types.ts                                                           *)
(***************************************************************************)
JobStatus == {"queued", "running", "success", "failed", "cancelled", "skipped"}

Stages == <<"analyzing", "decoding", "transforming", "encoding", "writing", "verifying", "cleaning">>

StageSet == {Stages[i] : i \in 1..Len(Stages)}

StageRank(s) == CHOOSE i \in 1..Len(Stages) : Stages[i] = s

Terminal == {"success", "failed", "skipped", "cancelled"}

NoResult == [status |-> "none", originalBytes |-> 0, outputBytes |-> 0, bytesSaved |-> 0]

(***************************************************************************)
(* core/jobs.ts: JobStateMachine.  A job is the record of the private      *)
(* fields _status, _progress, _result; each method is an operator from the *)
(* job before the call to the job after it.                                *)
(***************************************************************************)
NewJob == [status |-> "queued", progress |-> [percent |-> 0, stage |-> "analyzing"], result |-> NoResult]

startThrows(j) == j.status # "queued"

start(j) == IF startThrows(j) THEN j ELSE [j EXCEPT !.status = "running"]

updateProgress(j, percent, stage) ==
    IF j.status # "running" THEN j
    ELSE [j EXCEPT !.progress = [percent |-> percent, stage |-> stage]]

succeed(j, r) ==
    IF j.status # "running" THEN j
    ELSE [j EXCEPT !.status = "success", !.result = [r EXCEPT !.status = "success"]]

fail(j, r) ==
    IF j.status # "running" /\ j.status # "queued" THEN j
    ELSE [j EXCEPT !.status = "failed", !.result = [r EXCEPT !.status = "failed"]]

cancelUnguarded(j) == [j EXCEPT !.status = "cancelled"]

cancel(j) ==
    IF j.status = "success" \/ j.status = "failed" \/ j.status = "skipped" THEN j
    ELSE [j EXCEPT !.status = "cancelled"]

skip(j, originalBytes) ==
    IF j.status # "queued" /\ j.status # "running" THEN j
    ELSE [j EXCEPT !.status = "skipped",
                   !.result = [status |-> "skipped", originalBytes |-> originalBytes,
                               outputBytes |-> originalBytes, bytesSaved |-> 0]]

\* Whether the method, called on the job j, reaches its call of emitEvent:
\* start when it does not throw, the others when they do not return early.
emitsChange(method, j) ==
    CASE method = "start" -> ~startThrows(j)
      [] method = "updateProgress" -> ~(j.status # "running")
      [] method = "succeed" -> ~(j.status # "running")
      [] method = "fail" -> ~(j.status # "running" /\ j.status # "queued")
      [] method = "cancel" -> ~(j.status = "success" \/ j.status = "failed" \/ j.status = "skipped")
      [] method = "skip" -> ~(j.status # "queued" /\ j.status # "running")

\* emitEvent: the event a method emits after it changed the job.
JobEvent(j) ==
    [status |-> j.status,
     progress |-> IF j.status = "running" THEN j.progress ELSE [percent |-> -1, stage |-> "none"],
     result |-> j.result]

(***************************************************************************)
(* Files.  A path is a sequence of tokens ("/" is path.sep), a buffer is a *)
(* sequence of bytes whose first byte tells the image format, and the file *)
(* system is a function from the paths that exist to their bytes.          *)
(***************************************************************************)
Exists(f, p) == p \in DOMAIN f

Put(f, p, c) == [q \in DOMAIN f \cup {p} |-> IF q = p THEN c ELSE f[q]]

Del(f, p) == [q \in DOMAIN f \ {p} |-> f[q]]

Prefixes(c) == {SubSeq(c, 1, n) : n \in 0..Len(c)}

StrictPrefixes(c) == {SubSeq(c, 1, n) : n \in 0..(Len(c) - 1)}

\* sharp(file).metadata().format: read from the header, throws on no image.
FormatOf(c) ==
    IF c = <<>> THEN "invalid"
    ELSE CASE c[1] = 1 -> "jpeg"
           [] c[1] = 2 -> "png"
           [] c[1] = 3 -> "webp"
           [] OTHER -> "invalid"

\* path.basename: the tokens after the last separator.
LastSep(p) == IF \E i \in DOMAIN p : p[i] = "/" THEN CHOOSE i \in DOMAIN p : p[i] = "/" /\ \A k \in DOMAIN p : p[k] = "/" => k <= i ELSE 0

basename(p) == SubSeq(p, LastSep(p) + 1, Len(p))

dirname(p) == SubSeq(p, 1, LastSep(p) - 1)

\* targetPath.replaceAll(path.sep, '_').replaceAll(':', '_')
safeName(p) == [i \in DOMAIN p |-> IF p[i] = "/" \/ p[i] = ":" THEN "_" ELSE p[i]]

VARIABLES
    jsm,        \* SpecJob: one JobStateMachine under arbitrary calls
    jsmCall,    \* SpecJob: the last method called on it, whether it threw or emitted
    jsmCalls,   \* SpecJob: number of calls made
    fs,         \* the file system: path -> bytes
    aw,         \* SpecWrite: the atomicWrite / writeValidatedAtomic call in progress
    awCalls,    \* SpecWrite: number of writes started
    dr,         \* SpecDirect: the run service's executeRun (control flag, counters, position)
    tasks,      \* SpecDirect: per input file, the runTask in progress and its JobStateMachine
    run,        \* SpecRun: main.ts executeRun (control flag, counters, worker loops, position)
    pool,       \* SpecRun: the WorkerPool (worker states and queue)
    fr,         \* SpecFile: a run in replace mode and the Restore after it
    ft,         \* SpecFile: per input file, the processFile in progress in a worker
    sel,        \* SpecSelect: the candidates of one action being built and the one picked
    ws,         \* SpecWatch: the WatchFolderService (queue, pending, inFlight, timers, lifecycles)
    wfiles,     \* SpecWatch: the fingerprint each watched file has on disk
    sc,         \* SpecStable: one lifecycle's waitUntilStable call and what follows it
    wp,         \* SpecPool: a WorkerPool under arbitrary run calls, and the order of its posts
    sub,        \* SpecSubfolder: a run in subfolder mode over a chosen list of input paths
    ids,        \* SpecRunIds: the clock and the runs started through run:start
    fn,         \* SpecFn: the last call of a pure helper of the optimizer, with its result
    col,        \* SpecCollide: the jobs of a run in subfolder mode naming and writing their outputs
    pix         \* SpecIndex: the ProcessedIndexStore, its timer, its save and its file

jobVars == <<jsm, jsmCall, jsmCalls>>

writeVars == <<fs, aw, awCalls>>

directVars == <<dr, tasks>>

runVars == <<run, pool>>

fileVars == <<fr, ft>>

watchVars == <<ws, wfiles>>

vars == <<jobVars, writeVars, directVars, runVars, fileVars, sel, watchVars, sc, wp, sub, ids, fn, col, pix>>

JobFrame == UNCHANGED <<writeVars, directVars, runVars, fileVars, sel, watchVars, sc, wp, sub, ids, fn, col, pix>>

WriteFrame == UNCHANGED <<jobVars, directVars, runVars, fileVars, sel, watchVars, sc, wp, sub, ids, fn, col, pix>>

DirectFrame == UNCHANGED <<jobVars, aw, awCalls, runVars, fileVars, sel, watchVars, sc, wp, sub, ids, fn, col, pix>>

RunFrame == UNCHANGED <<jobVars, writeVars, directVars, fileVars, sel, watchVars, sc, wp, sub, ids, fn, col, pix>>

FileFrame == UNCHANGED <<jobVars, aw, awCalls, directVars, runVars, sel, watchVars, sc, wp, sub, ids, fn, col, pix>>

SelectFrame == UNCHANGED <<jobVars, writeVars, directVars, runVars, fileVars, watchVars, sc, wp, sub, ids, fn, col, pix>>

WatchFrame == UNCHANGED <<jobVars, writeVars, directVars, runVars, fileVars, sel, sc, wp, sub, ids, fn, col, pix>>

StableFrame == UNCHANGED <<jobVars, writeVars, directVars, runVars, fileVars, sel, watchVars, wp, sub, ids, fn, col, pix>>

PoolFrame == UNCHANGED <<jobVars, writeVars, directVars, runVars, fileVars, sel, watchVars, sc, sub, ids, fn, col, pix>>

SubfolderFrame == UNCHANGED <<jobVars, aw, awCalls, directVars, runVars, fileVars, sel, watchVars, sc, wp, ids, fn, col, pix>>

RunIdsFrame == UNCHANGED <<jobVars, aw, awCalls, directVars, runVars, fileVars, sel, watchVars, sc, wp, sub, fn, col, pix>>

FnFrame == UNCHANGED <<jobVars, writeVars, directVars, runVars, fileVars, sel, watchVars, sc, wp, sub, ids, col, pix>>

CollideFrame == UNCHANGED <<jobVars, aw, awCalls, directVars, runVars, fileVars, sel, watchVars, sc, wp, sub, ids, fn, pix>>

IndexFrame == UNCHANGED <<jobVars, writeVars, directVars, runVars, fileVars, sel, watchVars, sc, wp, sub, ids, fn, col>>

(***************************************************************************)
(* SpecJob: every sequence of method calls on one JobStateMachine.         *)
(***************************************************************************)
Percents == {0, 10, 60, 100}

Results == {[status |-> "none", originalBytes |-> 2, outputBytes |-> o, bytesSaved |-> 2 - o] : o \in 1..2}

IdleJob ==
    /\ jsm = NewJob
    /\ jsmCall = [method |-> "new", threw |-> FALSE, emitted |-> FALSE]
    /\ jsmCalls = 0

IdleWrite ==
    /\ fs = <<>>
    /\ aw = [pc |-> "idle"]
    /\ awCalls = 0

IdleDirect ==
    /\ dr = [pc |-> "idle"]
    /\ tasks = <<>>

IdleRun ==
    /\ run = [pc |-> "idle"]
    /\ pool = [workers |-> <<>>, queue |-> <<>>, closed |-> FALSE]

IdleFile ==
    /\ fr = [pc |-> "idle"]
    /\ ft = <<>>

IdleSelect == sel = [pc |-> "idle"]

IdleWatch ==
    /\ ws = [pc |-> "idle"]
    /\ wfiles = <<>>

IdleStable == sc = [pc |-> "idle"]

IdlePool == wp = [pc |-> "idle"]

IdleSubfolder == sub = [pc |-> "idle"]

IdleRunIds == ids = [pc |-> "idle"]

IdleFn == fn = [pc |-> "idle"]

\* The specifications added last are idle in every other one.
IdleCollide == col = [pc |-> "idle"]

IdleIndex == pix = [pc |-> "idle"]

IdleLast == IdleCollide /\ IdleIndex

IdleRest == IdleSubfolder /\ IdleRunIds /\ IdleFn /\ IdleLast

InitJob ==
    /\ IdleJob /\ IdleWrite /\ IdleDirect /\ IdleRun /\ IdleFile /\ IdleSelect
    /\ IdleWatch /\ IdleStable /\ IdlePool /\ IdleRest

Called(m, threw) ==
    /\ jsmCalls < MaxCalls
    /\ jsmCalls' = jsmCalls + 1
    /\ jsmCall' = [method |-> m, threw |-> threw, emitted |-> emitsChange(m, jsm)]

CallStart ==
    /\ Called("start", startThrows(jsm))
    /\ jsm' = start(jsm)

CallUpdateProgress ==
    \E p \in Percents, s \in StageSet :
        /\ Called("updateProgress", FALSE)
        /\ jsm' = updateProgress(jsm, p, s)

CallSucceed ==
    \E r \in Results :
        /\ Called("succeed", FALSE)
        /\ jsm' = succeed(jsm, r)

CallFail ==
    \E r \in Results :
        /\ Called("fail", FALSE)
        /\ jsm' = fail(jsm, r)

CallCancel ==
    /\ Called("cancel", FALSE)
    /\ jsm' = cancel(jsm)

CallSkip ==
    \E b \in 1..2 :
        /\ Called("skip", FALSE)
        /\ jsm' = skip(jsm, b)

NextJob ==
    \/ CallStart /\ JobFrame
    \/ CallUpdateProgress /\ JobFrame
    \/ CallSucceed /\ JobFrame
    \/ CallFail /\ JobFrame
    \/ CallCancel /\ JobFrame
    \/ CallSkip /\ JobFrame

SpecJob == InitJob /\ [][NextJob]_vars

\* C7: once the status is success, failed, skipped or cancelled it never
\* changes again; running is entered only from queued, and a start in any
\* other state throws and leaves the status unchanged; skipped is entered
\* only from queued or running.
C7_TerminalAbsorbing ==
    [][ /\ (jsm.status \in Terminal => jsm'.status = jsm.status)
        /\ (jsm'.status = "running" /\ jsm.status # "running" => jsm.status = "queued")
        /\ (jsmCall'.method = "start" /\ jsm.status # "queued"
              => jsmCall'.threw /\ jsm'.status = jsm.status)
        /\ (jsm'.status = "skipped" /\ jsm.status # "skipped"
              => jsm.status \in {"queued", "running"}) ]_vars

\* C7 witness: a method was called on a job that had already ended with
\* success, after it went through running.
C7_Witness ==
    /\ jsm.status = "success"
    /\ jsmCall.method = "cancel"
    /\ jsmCalls >= 3

(***************************************************************************)
(* adapters/fs/atomicWrite.ts: atomicWrite, and optimizer/pipeline.ts:     *)
(* writeValidatedAtomic.  One step per await; every await can fail, and    *)
(* the process can be killed between any two of them.                      *)
(***************************************************************************)
NoPath == <<>>

\* `${targetPath}.${Date.now()}.${random}.tmp`
tmpPathInPlace(target) == target

tmpPath(target) == target \o <<".tmp">>

\* io/paths.ts tempFilePath: <dir>/.optimise-tmp/<time>-<random>-<base><ext>.tmp
tempFilePath(target) == dirname(target) \o <<"/", ".optimise-tmp", "/">> \o basename(target) \o <<".tmp">>

\* path.join(backupDir, `${safeName}-${path.basename(targetPath)}.bak`)
bakPath(backupDir, target) == backupDir \o <<"/">> \o safeName(target) \o <<"-">> \o basename(target) \o <<".bak">>

\* fs.rename(tmp, target): one atomic replacement of the target.
rename(f, from, to) == IF from = to THEN f ELSE Put(Del(f, from), to, f[from])

WriteTarget == <<"/", "d", "/", "a", ".jpg">>

WriteBackupDir == <<"/", "d", "/", "Originals Backup">>

OldBytes == <<1, 7, 7>>

NewBuffers == {<<>>, <<1, 5>>, <<3, 6>>}

Formats == {"jpeg", "png", "webp"}

InitWrite ==
    /\ IdleRest
    /\ IdleJob
    /\ IdleDirect
    /\ IdleRun
    /\ IdleFile
    /\ IdleSelect
    /\ IdleWatch
    /\ IdleStable
    /\ IdlePool
    /\ fs \in {<<>>, Put(<<>>, WriteTarget, OldBytes)}
    /\ aw = [pc |-> "idle"]
    /\ awCalls = 0

\* atomicWrite(targetPath, buffer, options) is called.
CallAtomicWrite ==
    /\ aw.pc = "idle"
    /\ awCalls < MaxWrites
    /\ awCalls' = awCalls + 1
    /\ \E buffer \in NewBuffers, backupDir \in {NoPath, WriteBackupDir},
          expectedFormat \in {"none", "jpeg"}, skipValidation \in BOOLEAN :
          aw' = [pc |-> "mkdir", kind |-> "atomicWrite", target |-> WriteTarget, buffer |-> buffer,
                 tmp |-> tmpPath(WriteTarget), backupDir |-> backupDir,
                 expectedFormat |-> expectedFormat, skipValidation |-> skipValidation,
                 pre |-> [exists |-> Exists(fs, WriteTarget),
                          bytes |-> IF Exists(fs, WriteTarget) THEN fs[WriteTarget] ELSE <<>>],
                 result |-> "none"]
    /\ UNCHANGED fs

\* writeValidatedAtomic(targetPath, sourceBuffer, expected) is called.
CallWriteValidatedAtomic ==
    /\ aw.pc = "idle"
    /\ awCalls < MaxWrites
    /\ awCalls' = awCalls + 1
    /\ \E buffer \in NewBuffers, expected \in {"jpeg", "webp"} :
          aw' = [pc |-> "mkdir", kind |-> "writeValidatedAtomic", target |-> WriteTarget, buffer |-> buffer,
                 tmp |-> tempFilePath(WriteTarget), backupDir |-> NoPath,
                 expectedFormat |-> expected, skipValidation |-> FALSE,
                 pre |-> [exists |-> Exists(fs, WriteTarget),
                          bytes |-> IF Exists(fs, WriteTarget) THEN fs[WriteTarget] ELSE <<>>],
                 result |-> "none"]
    /\ UNCHANGED fs

\* A step of the write threw: atomicWrite goes to its catch block,
\* writeValidatedAtomic lets the error out and cleans nothing.
Thrown(w) == IF w.kind = "atomicWrite" THEN [w EXCEPT !.pc = "catch"]
             ELSE [w EXCEPT !.pc = "done", !.result = "error"]

\* fs.mkdir of the directory of the temp file.
AwMkdir ==
    /\ aw.pc = "mkdir"
    /\ \/ aw' = [aw EXCEPT !.pc = "write"]
       \/ aw' = Thrown(aw)
    /\ UNCHANGED <<fs, awCalls>>

\* fs.writeFile(tmpPath, buffer): complete, or failed part-way.
AwWriteFile ==
    /\ aw.pc = "write"
    /\ \/ /\ fs' = Put(fs, aw.tmp, aw.buffer)
          /\ aw' = [aw EXCEPT !.pc = "verify"]
       \/ /\ \E part \in StrictPrefixes(aw.buffer) : fs' = Put(fs, aw.tmp, part)
          /\ aw' = Thrown(aw)
       \/ /\ UNCHANGED fs
          /\ aw' = Thrown(aw)
    /\ UNCHANGED awCalls

\* The quick verification of the temp file (atomicWrite step 3,
\* validateOutput in writeValidatedAtomic).
VerifyPasses(w, f) ==
    IF w.kind = "atomicWrite"
    THEN \/ w.skipValidation
         \/ /\ Len(f[w.tmp]) # 0
            /\ w.expectedFormat # "none" => FormatOf(f[w.tmp]) = w.expectedFormat
    ELSE FormatOf(f[w.tmp]) = w.expectedFormat

AwVerify ==
    /\ aw.pc = "verify"
    /\ \/ /\ VerifyPasses(aw, fs)
          /\ aw' = [aw EXCEPT !.pc = IF aw.kind = "atomicWrite" THEN "backup" ELSE "rename"]
       \/ /\ ~VerifyPasses(aw, fs)
          /\ aw' = Thrown(aw)
       \/ /\ ~aw.skipValidation
          /\ aw' = Thrown(aw)
    /\ UNCHANGED <<fs, awCalls>>

\* atomicWrite step 4: copy the existing target into the backup directory.
AwBackup ==
    /\ aw.pc = "backup"
    /\ IF Exists(fs, aw.target) /\ aw.backupDir # NoPath
       THEN \/ /\ fs' = Put(fs, bakPath(aw.backupDir, aw.target), fs[aw.target])
               /\ aw' = [aw EXCEPT !.pc = "rename"]
            \/ /\ \E part \in StrictPrefixes(fs[aw.target]) :
                     fs' = Put(fs, bakPath(aw.backupDir, aw.target), part)
               /\ aw' = Thrown(aw)
            \/ /\ UNCHANGED fs
               /\ aw' = Thrown(aw)
       ELSE /\ UNCHANGED fs
            /\ aw' = [aw EXCEPT !.pc = "rename"]
    /\ UNCHANGED awCalls

\* fs.rename(tmpPath, targetPath).
AwRename ==
    /\ aw.pc = "rename"
    /\ \/ /\ fs' = rename(fs, aw.tmp, aw.target)
          /\ aw' = [aw EXCEPT !.pc = "done", !.result = "ok"]
       \/ /\ UNCHANGED fs
          /\ aw' = Thrown(aw)
    /\ UNCHANGED awCalls

\* atomicWrite's catch block: fs.rm(tmpPath, {force: true}), errors ignored.
AwCatch ==
    /\ aw.pc = "catch"
    /\ \/ fs' = Del(fs, aw.tmp)
       \/ UNCHANGED fs
    /\ aw' = [aw EXCEPT !.pc = "done", !.result = "error"]
    /\ UNCHANGED awCalls

\* The process is killed in the middle of a write: nothing more runs.  A
\* kill during fs.writeFile leaves a part of the buffer in the temp file.
AwCrash ==
    /\ aw.pc \in {"mkdir", "write", "verify", "backup", "rename", "catch"}
    /\ \/ UNCHANGED fs
       \/ /\ aw.pc = "write"
          /\ \E part \in StrictPrefixes(aw.buffer) : fs' = Put(fs, aw.tmp, part)
    /\ aw' = [aw EXCEPT !.pc = "crashed", !.result = "crashed"]
    /\ UNCHANGED awCalls

\* The caller has the result; the next write may start.
AwReturn ==
    /\ aw.pc \in {"done", "crashed"}
    /\ awCalls < MaxWrites
    /\ aw' = [pc |-> "idle"]
    /\ UNCHANGED <<fs, awCalls>>

NextWrite ==
    \/ CallAtomicWrite /\ WriteFrame
    \/ CallWriteValidatedAtomic /\ WriteFrame
    \/ AwMkdir /\ WriteFrame
    \/ AwWriteFile /\ WriteFrame
    \/ AwVerify /\ WriteFrame
    \/ AwBackup /\ WriteFrame
    \/ AwRename /\ WriteFrame
    \/ AwCatch /\ WriteFrame
    \/ AwCrash /\ WriteFrame
    \/ AwReturn /\ WriteFrame

SpecWrite == InitWrite /\ [][NextWrite]_vars

\* C2: at every point of a write, also one that failed or was interrupted,
\* the bytes at the target path are the complete content from before the
\* write or the complete new buffer, never a part of either.
C2_TargetOldOrNew ==
    aw.pc # "idle" =>
        IF Exists(fs, aw.target)
        THEN \/ fs[aw.target] = aw.buffer
             \/ aw.pre.exists /\ fs[aw.target] = aw.pre.bytes
        ELSE ~aw.pre.exists

\* C2 witness: a write was interrupted after part of the buffer reached
\* the temp file, while the target still holds the old bytes.
C2_Witness ==
    /\ aw.pc = "crashed"
    /\ Exists(fs, aw.tmp)
    /\ fs[aw.tmp] \in StrictPrefixes(aw.buffer)
    /\ Exists(fs, aw.target)
    /\ fs[aw.target] = OldBytes

(***************************************************************************)
(* optimizer/io/paths.ts: where the outputs go.                            *)
(***************************************************************************)
Exts == {".jpg", ".jpeg", ".png", ".webp"}

\* path.parse(p).name and .dir, on a path whose last token is its extension.
stripExt(p) == IF Len(p) > 0 /\ p[Len(p)] \in Exts THEN SubSeq(p, 1, Len(p) - 1) ELSE p

\* path.relative(commonRoot, filePath) for a file under commonRoot.
relative(commonRoot, filePath) == SubSeq(filePath, Len(commonRoot) + 2, Len(filePath))

webpPathFor(filePath) == stripExt(filePath) \o <<".webp">>

outputPathForOriginal(filePath, commonRoot, outputMode) ==
    IF outputMode = "replace" THEN filePath
    ELSE commonRoot \o <<"/", "Optimized", "/">> \o relative(commonRoot, filePath)

outputPathForWebp(filePath, commonRoot, outputMode) ==
    IF outputMode = "replace" THEN webpPathFor(filePath)
    ELSE commonRoot \o <<"/", "Optimized", "/">> \o stripExt(relative(commonRoot, filePath)) \o <<".webp">>

(***************************************************************************)
(* optimizer/workerPool.ts getAutoConcurrency and the coordinator's choice *)
(* of the number of workers.                                               *)
(***************************************************************************)
Max(a, b) == IF a >= b THEN a ELSE b

Min(a, b) == IF a <= b THEN a ELSE b

getAutoConcurrency(cores) == Max(1, Min(4, cores - 1))

concurrencyOf(settings) ==
    IF settings.concurrencyMode = "auto" THEN getAutoConcurrency(settings.cores)
    ELSE Max(1, settings.concurrencyValue)

(***************************************************************************)
(* core/pipeline.ts runTask, and the end-to-end effect of the atomicWrite  *)
(* it awaits.                                                              *)
(***************************************************************************)
atomicWriteSucceeds(buffer, expectedFormat) ==
    /\ Len(buffer) # 0
    /\ FormatOf(buffer) = expectedFormat

atomicWriteEffect(f, target, buffer, backupDir) ==
    LET backedUp == IF Exists(f, target) /\ backupDir # NoPath
                    THEN Put(f, bakPath(backupDir, target), f[target])
                    ELSE f
    IN  Put(backedUp, target, buffer)

\* selectEncoder and the format its encoder declares.
encoderFormat(mode) == IF mode = "convertWebp" THEN "webp" ELSE "jpeg"

MagicOf(format) == CASE format = "jpeg" -> 1 [] format = "png" -> 2 [] format = "webp" -> 3

\* What an encoder may hand back for a 3-byte original: smaller, larger, or
\* bytes that are no image of the declared format.
EncodedBuffers(format) == {<<MagicOf(format), 5>>, <<MagicOf(format), 5, 5, 5>>, <<9, 9>>}

\* The JobResult of the success path (lines 126-135).
successResult(originalBytes, outputBytes) ==
    [status |-> "success", originalBytes |-> originalBytes, outputBytes |-> outputBytes,
     bytesSaved |-> Max(0, originalBytes - outputBytes)]

\* The JobResult of the catch block (lines 144-156).
failedResult == [status |-> "failed", originalBytes |-> 0, outputBytes |-> 0, bytesSaved |-> 0]

(***************************************************************************)
(* SpecDirect: the run service's executeRun, which awaits runTask for      *)
(* every resolved path in the main process.                                *)
(***************************************************************************)
DirectDir == <<"/", "d">>

DirectNames == <<"a", "b", "c">>

DirectInput(i) == DirectDir \o <<"/", DirectNames[i], ".jpg">>

DirectSettings ==
    [mode : {"optimize", "convertWebp"}, outputMode : {"subfolder", "replace"},
     allowLargerOutput : BOOLEAN, concurrencyMode : {"manual"}, concurrencyValue : {0, 1, 2},
     cores : {8}]
    \cup
    [mode : {"optimize"}, outputMode : {"subfolder"},
     allowLargerOutput : {FALSE}, concurrencyMode : {"auto"}, concurrencyValue : {3},
     cores : {1, 2}]

InitDirect ==
    /\ IdleRest
    /\ IdleJob
    /\ aw = [pc |-> "idle"]
    /\ awCalls = 0
    /\ fs = <<>>
    /\ dr = [pc |-> "idle"]
    /\ tasks = <<>>
    /\ IdleRun
    /\ IdleFile
    /\ IdleSelect
    /\ IdleWatch
    /\ IdleStable
    /\ IdlePool

\* ipcMain.handle('run:start'): executeRun runs up to its first await.
DrStartRun ==
    /\ dr.pc = "idle"
    /\ \E settings \in DirectSettings, n \in 1..MaxDirectFiles :
         /\ dr' = [pc |-> "resolve", cancelled |-> FALSE, settings |-> settings, total |-> n,
                   backupDir |-> IF settings.outputMode = "replace"
                                 THEN DirectDir \o <<"/", "Originals Backup", "/", "run">>
                                 ELSE NoPath,
                   done |-> 0, skipped |-> 0, failed |-> 0, convertedFiles |-> 0,
                   totalOriginalBytes |-> 0, totalOutputBytes |-> 0, totalSavedBytes |-> 0,
                   finished |-> 0]
         /\ fs' = [p \in {DirectInput(i) : i \in 1..n} |-> OldBytes]
         /\ tasks' = [i \in 1..n |-> [pc |-> "new", job |-> NewJob, result |-> NoResult,
                                      originalBytes |-> 0, encoded |-> <<>>]]

\* cancelRun(runId) while the run is in activeRuns.
DrCancel ==
    /\ dr.pc \notin {"idle", "finished"}
    /\ ~dr.cancelled
    /\ dr' = [dr EXCEPT !.cancelled = TRUE]
    /\ UNCHANGED <<fs, tasks>>

\* await resolveInputPaths, await fs.mkdir(backupDir), new WorkerPool.
DrResolved ==
    /\ dr.pc = "resolve"
    /\ dr' = [dr EXCEPT !.pc = "map"]
    /\ UNCHANGED <<fs, tasks>>

\* runTask up to its first await: state.start(), updateProgress(10, 'decoding').
runTaskBegin(t) ==
    [t EXCEPT !.pc = "read",
              !.job = updateProgress(start(t.job), 10, "decoding")]

\* resolved.map(async ...): every callback runs up to its first await, in order,
\* with no other code in between.
DrMap ==
    /\ dr.pc = "map"
    /\ tasks' = [i \in DOMAIN tasks |->
                   IF dr.cancelled THEN [tasks[i] EXCEPT !.pc = "dropped"]
                   ELSE runTaskBegin(tasks[i])]
    /\ dr' = [dr EXCEPT !.pc = "await"]
    /\ UNCHANGED fs

\* The catch block of runTask: state.fail(result); return result.
runTaskCatch(t) ==
    [t EXCEPT !.pc = "returned", !.job = fail(t.job, failedResult), !.result = failedResult]

\* fs.readFile(task.inputPath) settles; then updateProgress(20, 'analyzing').
TaskRead(i) ==
    /\ i \in DOMAIN tasks
    /\ tasks[i].pc = "read"
    /\ \/ tasks' = [tasks EXCEPT ![i] = [@ EXCEPT !.pc = "metadata",
                                                 !.originalBytes = Len(fs[DirectInput(i)]),
                                                 !.job = updateProgress(@, 20, "analyzing")]]
       \/ tasks' = [tasks EXCEPT ![i] = runTaskCatch(@)]
    /\ UNCHANGED <<fs, dr>>

\* processMetadata settles; then updateProgress(40, 'transforming').
TaskMetadata(i) ==
    /\ i \in DOMAIN tasks
    /\ tasks[i].pc = "metadata"
    /\ \/ tasks' = [tasks EXCEPT ![i] = [@ EXCEPT !.pc = "preset",
                                                 !.job = updateProgress(@, 40, "transforming")]]
       \/ tasks' = [tasks EXCEPT ![i] = runTaskCatch(@)]
    /\ UNCHANGED <<fs, dr>>

\* applyPreset settles; then updateProgress(60, 'encoding').
TaskPreset(i) ==
    /\ i \in DOMAIN tasks
    /\ tasks[i].pc = "preset"
    /\ \/ tasks' = [tasks EXCEPT ![i] = [@ EXCEPT !.pc = "encode",
                                                 !.job = updateProgress(@, 60, "encoding")]]
       \/ tasks' = [tasks EXCEPT ![i] = runTaskCatch(@)]
    /\ UNCHANGED <<fs, dr>>

\* encoder.encode settles; then updateProgress(80, 'writing').
TaskEncode(i) ==
    /\ i \in DOMAIN tasks
    /\ tasks[i].pc = "encode"
    /\ \/ \E buffer \in EncodedBuffers(encoderFormat(dr.settings.mode)) :
            tasks' = [tasks EXCEPT ![i] = [@ EXCEPT !.pc = "write",
                                                  !.encoded = buffer,
                                                  !.job = updateProgress(@, 80, "writing")]]
       \/ tasks' = [tasks EXCEPT ![i] = runTaskCatch(@)]
    /\ UNCHANGED <<fs, dr>>

taskTargetPath(i, settings) ==
    IF encoderFormat(settings.mode) = "webp"
    THEN outputPathForWebp(DirectInput(i), DirectDir, settings.outputMode)
    ELSE outputPathForOriginal(DirectInput(i), DirectDir, settings.outputMode)

\* atomicWrite settles; on success updateProgress(95, 'verifying'), the
\* result is built and state.succeed is called; a failed write is thrown.
TaskWrite(i) ==
    /\ i \in DOMAIN tasks
    /\ tasks[i].pc = "write"
    /\ LET t == tasks[i]
           format == encoderFormat(dr.settings.mode)
           result == successResult(t.originalBytes, Len(t.encoded))
       IN \/ /\ atomicWriteSucceeds(t.encoded, format)
             /\ fs' = atomicWriteEffect(fs, taskTargetPath(i, dr.settings), t.encoded, dr.backupDir)
             /\ tasks' = [tasks EXCEPT ![i] =
                            [@ EXCEPT !.pc = "returned", !.result = result,
                                      !.job = succeed(updateProgress(@, 95, "verifying"), result)]]
          \/ /\ tasks' = [tasks EXCEPT ![i] = runTaskCatch(@)]
             /\ UNCHANGED fs
    /\ UNCHANGED dr

\* The callback's code after `await runTask`: the counters of the run.
DrCollect(i) ==
    /\ i \in DOMAIN tasks
    /\ tasks[i].pc = "returned"
    /\ LET r == tasks[i].result
       IN dr' = [dr EXCEPT
                   !.done = @ + 1,
                   !.totalOriginalBytes = @ + r.originalBytes,
                   !.totalOutputBytes = @ + r.outputBytes,
                   !.totalSavedBytes = IF r.status = "success" THEN @ + r.bytesSaved ELSE @,
                   !.convertedFiles = IF r.status = "success" /\ encoderFormat(dr.settings.mode) = "webp"
                                      THEN @ + 1 ELSE @,
                   !.failed = IF r.status = "failed" THEN @ + 1 ELSE @,
                   !.skipped = IF r.status = "skipped" THEN @ + 1 ELSE @]
    /\ tasks' = [tasks EXCEPT ![i] = [@ EXCEPT !.pc = "collected"]]
    /\ UNCHANGED fs

\* Promise.all settles; pool.close, updateLastRunState and JOB_FINISHED.
DrFinish ==
    /\ dr.pc = "await"
    /\ \A i \in DOMAIN tasks : tasks[i].pc \in {"collected", "dropped"}
    /\ dr' = [dr EXCEPT !.pc = "finished", !.finished = @ + 1]
    /\ UNCHANGED <<fs, tasks>>

NextDirect ==
    \/ DrStartRun /\ DirectFrame
    \/ DrCancel /\ DirectFrame
    \/ DrResolved /\ DirectFrame
    \/ DrMap /\ DirectFrame
    \/ \E i \in 1..MaxDirectFiles : TaskRead(i) /\ DirectFrame
    \/ \E i \in 1..MaxDirectFiles : TaskMetadata(i) /\ DirectFrame
    \/ \E i \in 1..MaxDirectFiles : TaskPreset(i) /\ DirectFrame
    \/ \E i \in 1..MaxDirectFiles : TaskEncode(i) /\ DirectFrame
    \/ \E i \in 1..MaxDirectFiles : TaskWrite(i) /\ DirectFrame
    \/ \E i \in 1..MaxDirectFiles : DrCollect(i) /\ DirectFrame
    \/ DrFinish /\ DirectFrame

SpecDirect == InitDirect /\ [][NextDirect]_vars

DirectRunning == {i \in DOMAIN tasks : tasks[i].job.status = "running"}

\* C1: at every instant of a run with concurrency N, at most N file jobs
\* are in state running.
C1_AtMostNRunning ==
    dr.pc # "idle" => Cardinality(DirectRunning) <= concurrencyOf(dr.settings)

\* C8: while a job runs, the stage it reports never goes back to an earlier
\* stage of analyzing, decoding, transforming, encoding, writing, verifying,
\* cleaning, and the percent it reports never decreases.
C8_StagesForward ==
    [][\A i \in DOMAIN tasks :
         (i \in DOMAIN tasks' /\ tasks[i].job.status = "running" /\ tasks'[i].job.status = "running")
         => /\ StageRank(tasks'[i].job.progress.stage) >= StageRank(tasks[i].job.progress.stage)
            /\ tasks'[i].job.progress.percent >= tasks[i].job.progress.percent]_vars

\* C9: every file reported with status success has outputBytes <=
\* originalBytes unless allowLargerOutput is set, and bytesSaved =
\* max(0, originalBytes - outputBytes).
C9_NoLargerOutput ==
    \A i \in DOMAIN tasks :
        tasks[i].job.status = "success"
        => /\ (dr.settings.allowLargerOutput \/ tasks[i].job.result.outputBytes <= tasks[i].job.result.originalBytes)
           /\ tasks[i].job.result.bytesSaved =
                Max(0, tasks[i].job.result.originalBytes - tasks[i].job.result.outputBytes)

(***************************************************************************)
(* optimizer/workerPool.ts: WorkerPool.  A worker state is the pool's      *)
(* WorkerState (busy, current) plus the state of the thread behind it      *)
(* (alive); current = NoJob stands for undefined.                          *)
(***************************************************************************)
NoJob == [loop |-> 0, file |-> 0]

newWorkerPool(size) ==
    [workers |-> [w \in 1..Max(1, size) |-> [busy |-> FALSE, current |-> NoJob, alive |-> TRUE]],
     queue |-> <<>>, closed |-> FALSE]

freeWorkers(p) == {w \in DOMAIN p.workers : ~p.workers[w].busy}

\* workers.find returns the first worker that is not busy.
firstFree(p) == CHOOSE w \in freeWorkers(p) : \A v \in freeWorkers(p) : w <= v

\* pump with queue.pop() in place of queue.shift().
pumpLast(p) ==
    IF freeWorkers(p) = {} \/ p.queue = <<>> THEN p
    ELSE [p EXCEPT !.workers[firstFree(p)] = [@ EXCEPT !.busy = TRUE, !.current = p.queue[Len(p.queue)]],
                   !.queue = SubSeq(p.queue, 1, Len(p.queue) - 1)]

pump(p) ==
    IF freeWorkers(p) = {} \/ p.queue = <<>> THEN p
    ELSE [p EXCEPT !.workers[firstFree(p)] = [@ EXCEPT !.busy = TRUE, !.current = Head(p.queue)],
                   !.queue = Tail(p.queue)]

poolRun(p, job) == pump([p EXCEPT !.queue = Append(@, job)])

\* A variant of the 'message' handler that releases the slot and does not pump.
onMessageNoPump(p, w) == [p EXCEPT !.workers[w] = [@ EXCEPT !.busy = FALSE, !.current = NoJob]]

\* The 'message' handler after its guard: the slot is released and pump runs.
onMessage(p, w) == pump([p EXCEPT !.workers[w] = [@ EXCEPT !.busy = FALSE, !.current = NoJob]])

\* The 'error' handler: the slot is released, the thread is gone, pump runs.
onError(p, w) ==
    pump([p EXCEPT !.workers[w] = [@ EXCEPT !.busy = FALSE, !.current = NoJob, !.alive = FALSE]])

poolClose(p) == [p EXCEPT !.closed = TRUE]

(***************************************************************************)
(* main.ts executeRun with the worker pool.                                *)
(***************************************************************************)
FileStatusTerminal == {"Done", "Skipped", "Failed", "Cancelled"}

\* What a worker can answer for a task: ok:false, or ok:true with the
\* status inferFileStatus gives the primary action.
Responses == {"okFalse", "Done", "Skipped", "Failed"}

RunSettings == [concurrencyMode : {"manual"}, concurrencyValue : {1, 2}, cores : {8}]

\* One turn of a worker loop, from `while (true)` to `await pool.run(task)`
\* or to a break.  st is the pair of the run and the pool.
loopTurn(st, l) ==
    IF st.run.cancelled \/ st.run.index >= st.run.total
    THEN [st EXCEPT !.run.loops[l] = "done"]
    ELSE LET f == st.run.index + 1
         IN [run |-> [st.run EXCEPT !.index = f,
                                    !.fileStatus[f] = "Processing",
                                    !.loops[l] = "await"],
             pool |-> poolRun(st.pool, [loop |-> l, file |-> f])]

\* Array.from({length: concurrency}, async () => ...): every loop runs up to
\* its first await, in order.
RECURSIVE spawnLoops(_, _, _)
spawnLoops(st, l, n) == IF l > n THEN st ELSE spawnLoops(loopTurn(st, l), l + 1, n)

\* Lines 248-256: the files never started after a cancel are reported Cancelled.
synthCancelled(r) ==
    IF r.cancelled /\ r.index < r.total
    THEN [r EXCEPT !.index = r.total,
                   !.done = @ + (r.total - r.index),
                   !.skipped = @ + (r.total - r.index),
                   !.fileStatus = [f \in 1..r.total |-> IF f > r.index THEN "Cancelled" ELSE @[f]]]
    ELSE r

\* Promise.all(workers) and the finally block: once every loop has ended the
\* cancelled files are synthesized and pool.close() is called; once one loop
\* has thrown, pool.close() is called and the exception goes on.
joinLoops(st) ==
    IF \E l \in DOMAIN st.run.loops : st.run.loops[l] = "threw"
    THEN [run |-> [st.run EXCEPT !.pc = "closing", !.threw = TRUE], pool |-> poolClose(st.pool)]
    ELSE IF \A l \in DOMAIN st.run.loops : st.run.loops[l] = "done"
    THEN [run |-> [synthCancelled(st.run) EXCEPT !.pc = "closing"], pool |-> poolClose(st.pool)]
    ELSE st

\* The loop body after `await pool.run(task)` resolved with a response.
afterResponse(r, f, response) ==
    IF response = "okFalse"
    THEN [r EXCEPT !.done = @ + 1, !.failed = @ + 1, !.failures = Append(@, f),
                   !.failedTasks = @ \cup {f}, !.fileStatus[f] = "Failed"]
    ELSE [r EXCEPT !.done = @ + 1,
                   !.skipped = IF response = "Skipped" THEN @ + 1 ELSE @,
                   !.fileStatus[f] = response]

InitRun ==
    /\ IdleRest
    /\ IdleJob
    /\ IdleWrite
    /\ IdleDirect
    /\ IdleRun
    /\ IdleFile
    /\ IdleSelect
    /\ IdleWatch
    /\ IdleStable
    /\ IdlePool

\* ipcMain.handle('run:start'): activeRuns.set, then executeRun up to its
\* first await.
RunStart ==
    /\ run.pc = "idle"
    /\ \E settings \in RunSettings, n \in 0..MaxRunFiles :
         run' = [pc |-> "resolve", cancelled |-> FALSE, threw |-> FALSE, settings |-> settings,
                 total |-> n, index |-> 0, done |-> 0, skipped |-> 0, failed |-> 0,
                 failures |-> <<>>, failedTasks |-> {},
                 fileStatus |-> [f \in 1..n |-> "Pending"], loops |-> <<>>,
                 logWritten |-> 0, lastRunWritten |-> 0, finished |-> 0,
                 finalCancelled |-> FALSE]
    /\ UNCHANGED pool

\* ipcMain.handle('run:cancel') while the run is in activeRuns.
RunCancel ==
    /\ run.pc \notin {"idle", "returned"}
    /\ ~run.cancelled
    /\ run' = [run EXCEPT !.cancelled = TRUE]
    /\ UNCHANGED pool

\* resolveInputPaths and mkdir settle; the pool is built and the loops start.
RunResolved ==
    /\ run.pc = "resolve"
    /\ LET n == concurrencyOf(run.settings)
           st0 == [run |-> [run EXCEPT !.pc = "await", !.loops = [l \in 1..n |-> "new"]],
                   pool |-> newWorkerPool(n)]
           st1 == joinLoops(spawnLoops(st0, 1, n))
       IN /\ run' = st1.run
          /\ pool' = st1.pool

\* A worker posts its answer: the 'message' handler, then the loop that was
\* waiting goes on to its next await or its end.
WorkerMessage(w) ==
    /\ run.pc = "await"
    /\ w \in DOMAIN pool.workers
    /\ pool.workers[w].alive /\ ~pool.closed
    /\ pool.workers[w].current # NoJob
    /\ \E response \in Responses :
         LET job == pool.workers[w].current
             st1 == [run |-> afterResponse(run, job.file, response), pool |-> onMessage(pool, w)]
             st2 == joinLoops(loopTurn(st1, job.loop))
         IN /\ run' = st2.run
            /\ pool' = st2.pool

\* A worker thread dies with an uncaught error: the 'error' handler rejects
\* the task in hand, and `await pool.run(task)` throws in the waiting loop.
WorkerError(w) ==
    /\ run.pc = "await"
    /\ w \in DOMAIN pool.workers
    /\ pool.workers[w].alive /\ ~pool.closed
    /\ LET job == pool.workers[w].current
           r1 == IF job = NoJob THEN run
                 ELSE [run EXCEPT !.loops[job.loop] = "threw", !.failedTasks = @ \cup {job.file}]
           st2 == joinLoops([run |-> r1, pool |-> onError(pool, w)])
       IN /\ run' = st2.run
          /\ pool' = st2.pool

\* `await pool.close()` settles: the exception of a loop leaves executeRun,
\* otherwise the summary is built and the log is being written.
RunPoolClosed ==
    /\ run.pc = "closing"
    /\ run' = [run EXCEPT !.pc = IF run.threw THEN "rejected" ELSE "log"]
    /\ UNCHANGED pool

\* writeJson(logPath, ...) settles.
RunLogWritten ==
    /\ run.pc = "log"
    /\ run' = [run EXCEPT !.pc = "lastRun", !.logWritten = @ + 1]
    /\ UNCHANGED pool

\* writeJson(getLastRunFilePath(), ...) settles; the finished event is
\* emitted and the run leaves activeRuns.
RunLastRunWritten ==
    /\ run.pc = "lastRun"
    /\ run' = [run EXCEPT !.pc = "returned", !.lastRunWritten = @ + 1, !.finished = @ + 1,
                           !.finalCancelled = run.cancelled]
    /\ UNCHANGED pool

NextRun ==
    \/ RunStart /\ RunFrame
    \/ RunCancel /\ RunFrame
    \/ RunResolved /\ RunFrame
    \/ \E w \in 1..2 : WorkerMessage(w) /\ RunFrame
    \/ \E w \in 1..2 : WorkerError(w) /\ RunFrame
    \/ RunPoolClosed /\ RunFrame
    \/ RunLogWritten /\ RunFrame
    \/ RunLastRunWritten /\ RunFrame

SpecRun == InitRun /\ [][NextRun]_vars

RunSettled == run.pc \in {"returned", "rejected"}

\* The RunSummary built at lines 261-274.
summaryOf(r) ==
    [totalFiles |-> r.total, processedFiles |-> r.done, skippedFiles |-> r.skipped,
     failedFiles |-> r.failed, failures |-> r.failures]

\* The files the run reported Cancelled (lines 248-256).
cancelledFiles(r) == {f \in 1..r.total : r.fileStatus[f] = "Cancelled"}

\* C5: for every started run the finished event is emitted exactly once,
\* and only after every input file has a terminal status (the Cancelled
\* statuses synthesized after a cancel included).
C5_FinishedExactlyOnce ==
    run.pc # "idle" =>
        /\ run.finished <= 1
        /\ (run.finished = 1 => \A f \in 1..run.total : run.fileStatus[f] \in FileStatusTerminal)
        /\ (RunSettled => run.finished = 1)

\* C6: a failed task (the worker answers ok:false, or the pool rejects the
\* task because the worker errored) does not abort the run: the remaining
\* files are processed, the failure is in summary.failures, the log is
\* persisted and the summary is emitted.
C6_FailureDoesNotAbort ==
    (RunSettled /\ run.failedTasks # {}) =>
        /\ run.logWritten = 1
        /\ run.finished = 1
        /\ \A f \in run.failedTasks : \E k \in DOMAIN run.failures : run.failures[k] = f
        /\ (~run.cancelled => \A f \in 1..run.total : run.fileStatus[f] \in FileStatusTerminal)

(***************************************************************************)
(* optimizer/io/paths.ts createBackupFilePath and ensureBackup;            *)
(* optimizer/candidates.ts; main.ts getCommonBaseDir.  Directory and file  *)
(* names are spelled one character per token, so that two paths are equal  *)
(* exactly when their strings are.                                         *)
(***************************************************************************)
createBackupFilePath(backupDir, originalPath) ==
    backupDir \o <<"/">> \o safeName(originalPath) \o <<"-">> \o basename(originalPath)

\* path.dirname, which answers the root for a path directly under it.
pathDirname(p) == IF LastSep(p) <= 1 THEN <<"/">> ELSE SubSeq(p, 1, LastSep(p) - 1)

\* String.prototype.startsWith.
startsWith(p, q) == Len(q) <= Len(p) /\ SubSeq(p, 1, Len(q)) = q

\* The while loop of getCommonBaseDir for one more path.
RECURSIVE shrinkCommon(_, _)
shrinkCommon(common, current) ==
    IF ~startsWith(current, common) /\ Len(common) > 1
    THEN shrinkCommon(pathDirname(common), current)
    ELSE common

RECURSIVE commonFrom(_, _, _)
commonFrom(common, paths, i) ==
    IF i > Len(paths) THEN common
    ELSE commonFrom(shrinkCommon(common, pathDirname(paths[i])), paths, i + 1)

getCommonBaseDir(paths) == commonFrom(pathDirname(paths[1]), paths, 2)

getOutputFormatForPath(inputPath) ==
    CASE inputPath[Len(inputPath)] \in {".jpg", ".jpeg"} -> "jpeg"
      [] inputPath[Len(inputPath)] = ".png" -> "png"
      [] inputPath[Len(inputPath)] = ".webp" -> "webp"
      [] OTHER -> "none"

shouldCreateWebp(mode) == mode \in {"convertWebp", "optimizeAndWebp"}

shouldOptimizeOriginal(mode) == mode \in {"optimize", "optimizeAndWebp"}

dangerousReplace(settings) ==
    settings.outputMode = "replace" /\ settings.replaceWithWebp /\ settings.confirmDangerousWebpReplace

\* ensureBackup on the state of one processFile: a cache hit returns, else
\* the original is copied to its backup path and recorded.
ensureBackupHit(t) == t.cached

ensureBackupFiles(f, backupDir, originalPath) ==
    Put(f, createBackupFilePath(backupDir, originalPath), f[originalPath])

ensureBackupTask(t, backupDir) ==
    [t EXCEPT !.cached = TRUE,
              !.backups = Append(@, [originalPath |-> t.path,
                                     backupPath |-> createBackupFilePath(backupDir, t.path),
                                     removeOnRestore |-> NoPath])]

\* writeValidatedAtomic from call to return: the target gets the buffer when
\* the temp file validates as the expected format, else the call throws.
writeValidatedOk(buffer, format) == FormatOf(buffer) = format

(***************************************************************************)
(* SpecFile: a run in replace mode whose workers execute processFile       *)
(* (optimizer/pipeline.ts), the last-run state it saves, and               *)
(* restoreLastRun.                                                         *)
(***************************************************************************)
PathA == <<"/", "r", "/", "a", "/", "b", "/", "c", ".png">>

PathB == <<"/", "r", "/", "a", "_", "b", "/", "c", ".png">>

PathC == <<"/", "r", "/", "x", ".webp">>

PathD == <<"/", "r", "/", "x", ".png">>

FilePaths == {PathA, PathB, PathC, PathD}

FileContent(p) ==
    CASE p = PathA -> <<2, 11, 11>>
      [] p = PathB -> <<2, 12, 12>>
      [] p = PathC -> <<3, 13, 13>>
      [] p = PathD -> <<2, 14, 14>>

\* The resolved input lists: distinct supported paths.
FileInputs ==
    {q \in UNION {[1..n -> FilePaths] : n \in 1..MaxInputFiles} :
        \A i, j \in DOMAIN q : i # j => q[i] # q[j]}

FileSettings ==
    [mode : {"optimize", "convertWebp", "optimizeAndWebp"}, outputMode : {"replace"},
     reencodeExistingWebp : BOOLEAN, replaceWithWebp : BOOLEAN,
     confirmDangerousWebpReplace : BOOLEAN, deleteOriginalAfterWebp : BOOLEAN]

\* What pickBest hands on: no candidate, a valid smaller buffer of the
\* format, or bytes the validation will refuse.
Candidates(format) == {<<>>, <<MagicOf(format), 5>>, <<9>>}

InitFile ==
    /\ IdleRest
    /\ IdleJob
    /\ IdleWrite
    /\ IdleDirect
    /\ IdleRun
    /\ IdleFile
    /\ IdleSelect
    /\ IdleWatch
    /\ IdleStable
    /\ IdlePool

\* run:start and executeRun up to the dispatch of the tasks to the workers.
FrStart ==
    /\ fr.pc = "idle"
    /\ \E inputs \in FileInputs, settings \in FileSettings :
         LET commonRoot == getCommonBaseDir(inputs)
             files == [p \in {inputs[i] : i \in DOMAIN inputs} |-> FileContent(p)]
         IN /\ fs' = files
            /\ fr' = [pc |-> "running", settings |-> settings, commonRoot |-> commonRoot,
                      backupDir |-> commonRoot \o <<"/", "Originals Backup", "/", "run">>,
                      pre |-> files, backupRecords |-> <<>>, lastRun |-> <<>>,
                      restoreAt |-> 0, restored |-> 0, restoreFailed |-> 0,
                      cancelled |-> FALSE, earlyAtCancel |-> {}]
            /\ ft' = [i \in DOMAIN inputs |->
                        [path |-> inputs[i], pc |-> "queued", cached |-> FALSE,
                         backups |-> <<>>, buffer |-> <<>>]]

\* run:cancel during the run: control.cancelled is set in the main process;
\* the workers are told nothing.  earlyAtCancel keeps the tasks that had not
\* reached a write at that moment.
FrCancel ==
    /\ fr.pc = "running"
    /\ ~fr.cancelled
    /\ fr' = [fr EXCEPT !.cancelled = TRUE, !.earlyAtCancel = {i \in DOMAIN ft : ft[i].pc \in {"queued", "optimise", "optimiseBackup"}}]
    /\ UNCHANGED <<fs, ft>>

afterOptimise(settings) == IF shouldCreateWebp(settings.mode) THEN "webp" ELSE "done"

\* processFile: readFile and analyzeImage settle.
FileRead(i) ==
    /\ i \in DOMAIN ft
    /\ ft[i].pc = "queued"
    /\ ft' = [ft EXCEPT ![i].pc =
                IF ~Exists(fs, ft[i].path) THEN "failed"
                ELSE IF shouldOptimizeOriginal(fr.settings.mode) THEN "optimise"
                ELSE afterOptimise(fr.settings)]
    /\ UNCHANGED <<fs, fr>>

\* runOptimizeAction up to ensureBackup.
FileOptimise(i) ==
    /\ i \in DOMAIN ft
    /\ ft[i].pc = "optimise"
    /\ LET type == getOutputFormatForPath(ft[i].path)
       IN IF type = "webp" /\ ~fr.settings.reencodeExistingWebp
          THEN ft' = [ft EXCEPT ![i].pc = afterOptimise(fr.settings)]
          ELSE \E best \in Candidates(type) :
                 ft' = [ft EXCEPT ![i].buffer = best,
                                  ![i].pc = IF best = <<>> THEN afterOptimise(fr.settings)
                                            ELSE IF fr.settings.outputMode = "replace" THEN "optimiseBackup"
                                            ELSE "optimiseWrite"]
    /\ UNCHANGED <<fs, fr>>

\* ensureBackup settles (either action).
FileBackup(i) ==
    /\ i \in DOMAIN ft
    /\ ft[i].pc \in {"optimiseBackup", "webpBackup"}
    /\ LET next == IF ft[i].pc = "optimiseBackup" THEN "optimiseWrite" ELSE "webpWrite"
       IN IF ensureBackupHit(ft[i])
          THEN /\ ft' = [ft EXCEPT ![i].pc = next]
               /\ UNCHANGED fs
          ELSE IF ~Exists(fs, ft[i].path)
          THEN /\ ft' = [ft EXCEPT ![i].pc = "failed"]
               /\ UNCHANGED fs
          ELSE /\ fs' = ensureBackupFiles(fs, fr.backupDir, ft[i].path)
               /\ ft' = [ft EXCEPT ![i] = [ensureBackupTask(@, fr.backupDir) EXCEPT !.pc = next]]
    /\ UNCHANGED fr

\* writeValidatedAtomic of runOptimizeAction settles.
FileOptimiseWrite(i) ==
    /\ i \in DOMAIN ft
    /\ ft[i].pc = "optimiseWrite"
    /\ IF writeValidatedOk(ft[i].buffer, getOutputFormatForPath(ft[i].path))
       THEN /\ fs' = Put(fs, outputPathForOriginal(ft[i].path, fr.commonRoot, fr.settings.outputMode),
                         ft[i].buffer)
            /\ ft' = [ft EXCEPT ![i].pc = afterOptimise(fr.settings)]
       ELSE /\ ft' = [ft EXCEPT ![i].pc = "failed"]
            /\ UNCHANGED fs
    /\ UNCHANGED fr

\* runWebpAction up to ensureBackup or the write.
FileWebp(i) ==
    /\ i \in DOMAIN ft
    /\ ft[i].pc = "webp"
    /\ IF getOutputFormatForPath(ft[i].path) = "webp" /\ ~fr.settings.reencodeExistingWebp
       THEN ft' = [ft EXCEPT ![i].pc = "done"]
       ELSE \E best \in Candidates("webp") :
              ft' = [ft EXCEPT ![i].buffer = best,
                               ![i].pc = IF best = <<>> THEN "done"
                                         ELSE IF dangerousReplace(fr.settings) THEN "webpBackup"
                                         ELSE "webpWrite"]
    /\ UNCHANGED <<fs, fr>>

\* writeValidatedAtomic of runWebpAction settles; with the dangerous
\* replace and deleteOriginalAfterWebp the record is marked and fs.rm starts.
FileWebpWrite(i) ==
    /\ i \in DOMAIN ft
    /\ ft[i].pc = "webpWrite"
    /\ LET target == outputPathForWebp(ft[i].path, fr.commonRoot, fr.settings.outputMode)
       IN IF writeValidatedOk(ft[i].buffer, "webp")
          THEN /\ fs' = Put(fs, target, ft[i].buffer)
               /\ IF dangerousReplace(fr.settings) /\ fr.settings.deleteOriginalAfterWebp
                  THEN ft' = [ft EXCEPT ![i].pc = "webpRm",
                                        ![i].backups = [k \in DOMAIN @ |->
                                            IF @[k].originalPath = ft[i].path
                                               /\ \A h \in 1..(k - 1) : @[h].originalPath # ft[i].path
                                            THEN [@[k] EXCEPT !.removeOnRestore = target]
                                            ELSE @[k]]]
                  ELSE ft' = [ft EXCEPT ![i].pc = "done"]
          ELSE /\ ft' = [ft EXCEPT ![i].pc = "failed"]
               /\ UNCHANGED fs
    /\ UNCHANGED fr

\* fs.rm(inputPath, {force: true}) settles.
FileWebpRm(i) ==
    /\ i \in DOMAIN ft
    /\ ft[i].pc = "webpRm"
    /\ fs' = Del(fs, ft[i].path)
    /\ ft' = [ft EXCEPT ![i].pc = "done"]
    /\ UNCHANGED fr

\* The coordinator receives the worker's response: the backups of an ok
\* response are appended to backupRecords.
FrCollect(i) ==
    /\ i \in DOMAIN ft
    /\ ft[i].pc \in {"done", "failed"}
    /\ fr' = [fr EXCEPT !.backupRecords = IF ft[i].pc = "done" THEN @ \o ft[i].backups ELSE @]
    /\ ft' = [ft EXCEPT ![i].pc = "collected"]
    /\ UNCHANGED fs

\* The last-run state is written.
FrFinish ==
    /\ fr.pc = "running"
    /\ \A i \in DOMAIN ft : ft[i].pc = "collected"
    /\ fr' = [fr EXCEPT !.pc = "finished", !.lastRun = fr.backupRecords]
    /\ UNCHANGED <<fs, ft>>

\* restoreLastRun reads the last-run state.
FrRestore ==
    /\ fr.pc = "finished"
    /\ fr' = [fr EXCEPT !.pc = IF fr.lastRun = <<>> THEN "restored" ELSE "restoring", !.restoreAt = 1]
    /\ UNCHANGED <<fs, ft>>

restoreTmp(originalPath) == originalPath \o <<".restore.tmp">>

\* One turn of the for loop of restoreLastRun.
FrRestoreRecord ==
    /\ fr.pc = "restoring"
    /\ LET record == fr.lastRun[fr.restoreAt]
           removed == IF record.removeOnRestore # NoPath THEN Del(fs, record.removeOnRestore) ELSE fs
           last == fr.restoreAt = Len(fr.lastRun)
       IN IF Exists(removed, record.backupPath)
          THEN /\ fs' = rename(Put(removed, restoreTmp(record.originalPath), removed[record.backupPath]),
                               restoreTmp(record.originalPath), record.originalPath)
               /\ fr' = [fr EXCEPT !.restored = @ + 1, !.restoreAt = @ + 1,
                                   !.pc = IF last THEN "restored" ELSE "restoring"]
          ELSE /\ fs' = removed
               /\ fr' = [fr EXCEPT !.restoreFailed = @ + 1, !.restoreAt = @ + 1,
                                   !.pc = IF last THEN "restored" ELSE "restoring"]
    /\ UNCHANGED ft

NextFile ==
    \/ FrStart /\ FileFrame
    \/ FrCancel /\ FileFrame
    \/ \E i \in 1..MaxInputFiles : FileRead(i) /\ FileFrame
    \/ \E i \in 1..MaxInputFiles : FileOptimise(i) /\ FileFrame
    \/ \E i \in 1..MaxInputFiles : FileBackup(i) /\ FileFrame
    \/ \E i \in 1..MaxInputFiles : FileOptimiseWrite(i) /\ FileFrame
    \/ \E i \in 1..MaxInputFiles : FileWebp(i) /\ FileFrame
    \/ \E i \in 1..MaxInputFiles : FileWebpWrite(i) /\ FileFrame
    \/ \E i \in 1..MaxInputFiles : FileWebpRm(i) /\ FileFrame
    \/ \E i \in 1..MaxInputFiles : FrCollect(i) /\ FileFrame
    \/ FrFinish /\ FileFrame
    \/ FrRestore /\ FileFrame
    \/ FrRestoreRecord /\ FileFrame

SpecFile == InitFile /\ [][NextFile]_vars

\* C3: in replace mode, whenever an original no longer has its pre-run
\* content because the run wrote over it (or removed it), the backup copy of
\* that original exists and holds the pre-run content; this covers the
\* optimise action and the WebP action on the same file.
C3_BackupBeforeReplace ==
    fr.pc \in {"running", "finished"} =>
        \A p \in DOMAIN fr.pre :
            (~Exists(fs, p) \/ fs[p] # fr.pre[p])
            => /\ Exists(fs, createBackupFilePath(fr.backupDir, p))
               /\ fs[createBackupFilePath(fr.backupDir, p)] = fr.pre[p]

\* C4: after a run in replace mode and RestoreLastRun, every original with
\* a backup record in the last-run state has exactly its pre-run content.
C4_RestoreRoundTrip ==
    fr.pc = "restored" =>
        \A k \in DOMAIN fr.lastRun :
            /\ Exists(fs, fr.lastRun[k].originalPath)
            /\ fs[fr.lastRun[k].originalPath] = fr.pre[fr.lastRun[k].originalPath]

(***************************************************************************)
(* optimizer/candidates.ts, optimizer/pipeline.ts (evaluateCandidate,      *)
(* pickBest, build*Candidates) and optimizer/smartSearch.ts.  Similarities *)
(* are in thousandths (mssim 0.995 is 995), banding risks in hundredths.   *)
(***************************************************************************)
SSIM_THRESHOLD_NORMAL == 995

SSIM_THRESHOLD_AGGRESSIVE == 990

JPEG_AUTO_QUALITIES == <<88, 84, 80, 76, 72>>

WEBP_AUTO_QUALITIES == <<82, 78, 74, 70>>

TARGET_THRESHOLDS ==
    ("visually-lossless" :> 999) @@ ("high" :> 995) @@ ("balanced" :> 990) @@ ("small" :> 980)
    @@ ("custom" :> 990)

getSsimThreshold(settings) ==
    IF ~settings.qualityGuardrailSsim THEN 0
    ELSE IF settings.aggressivePng THEN SSIM_THRESHOLD_AGGRESSIVE ELSE SSIM_THRESHOLD_NORMAL

getJpegQualities(settings) ==
    IF settings.jpegQualityMode = "fixed" THEN <<settings.jpegQuality>> ELSE JPEG_AUTO_QUALITIES

getWebpQualities(settings) ==
    IF settings.webpQualityMode = "fixed" THEN <<settings.webpQuality>> ELSE WEBP_AUTO_QUALITIES

getPngQualityRanges(settings) ==
    IF settings.aggressivePng
    THEN <<[min |-> 80, max |-> 95], [min |-> 75, max |-> 90], [min |-> 70, max |-> 85]>>
    ELSE <<[min |-> 80, max |-> 95]>>

NoCandidate == [bytes |-> 0, mssim |-> 0, lossy |-> FALSE, none |-> TRUE]

Candidate(bytes, mssim, lossy) == [bytes |-> bytes, mssim |-> mssim, lossy |-> lossy, none |-> FALSE]

evaluateCandidateAlways(needsSsim, similarity, ssimThreshold) == TRUE

\* evaluateCandidate: TRUE when the candidate is returned, FALSE when null.
evaluateCandidate(needsSsim, similarity, ssimThreshold) ==
    IF ~needsSsim THEN TRUE
    ELSE ~(similarity < ssimThreshold)

\* A variant of pickBest that answers the candidate produced first.
pickFirst(candidates) == IF candidates = <<>> THEN NoCandidate ELSE candidates[1]

\* [...candidates].sort((a, b) => a.bytes - b.bytes)[0]; the sort is stable.
pickBest(candidates) ==
    IF candidates = <<>> THEN NoCandidate
    ELSE candidates[CHOOSE k \in DOMAIN candidates :
                      /\ \A h \in DOMAIN candidates : candidates[k].bytes <= candidates[h].bytes
                      /\ \A h \in 1..(k - 1) : candidates[h].bytes > candidates[k].bytes]

\* The needsSsim flags of the candidates a builder tries, in order.
ladderOf(builder, settings) ==
    CASE builder = "jpeg" -> [k \in DOMAIN getJpegQualities(settings) |-> TRUE]
      [] builder = "webp" -> [k \in DOMAIN getWebpQualities(settings) |-> TRUE]
      [] builder = "png" -> <<FALSE>> \o [k \in DOMAIN getPngQualityRanges(settings) |-> TRUE]

\* findOptimalQuality: the threshold, the number of iterations, the bounds.
targetThreshold(settings) ==
    IF settings.smartTarget = "custom" THEN settings.qualityGuardrail * 10
    ELSE TARGET_THRESHOLDS[settings.smartTarget]

searchIterations(settings) ==
    IF settings.optimizationSpeed = "fast" THEN 4
    ELSE IF settings.optimizationSpeed = "balanced" THEN 6 ELSE 8

searchMin(isPhoto, format) == IF ~isPhoto /\ format = "jpeg" THEN 70 ELSE 10

searchAccepts(mssim, bandingRisk, threshold) == mssim >= threshold /\ bandingRisk < 5

\* A variant of searchNext that keeps the first probe that passed.
searchKeepFirst(s, q, pass, candidate) ==
    IF pass
    THEN [s EXCEPT !.best = IF @.none THEN candidate ELSE @,
                   !.bestQ = IF s.best.none THEN q ELSE @,
                   !.max = q - 1, !.i = @ + 1,
                   !.probed = @ \cup {q}, !.passed = @ \cup {q}]
    ELSE [s EXCEPT !.min = q + 1, !.i = @ + 1, !.probed = @ \cup {q}]

\* The body of the loop of findOptimalQuality after the probe at quality q:
\* a probe that passed becomes best and lowers max, any other raises min.
\* probed and passed remember the qualities tried and those that passed.
searchNext(s, q, pass, candidate) ==
    IF pass
    THEN [s EXCEPT !.best = candidate, !.bestQ = q, !.max = q - 1, !.i = @ + 1,
                   !.probed = @ \cup {q}, !.passed = @ \cup {q}]
    ELSE [s EXCEPT !.min = q + 1, !.i = @ + 1, !.probed = @ \cup {q}]

\* A variant of shouldSkipIfLarger that lets an output of the original's size through.
shouldSkipIfStrictlyLarger(originalBytes, candidateBytes, settings) ==
    ~settings.allowLargerOutput /\ candidateBytes > originalBytes

shouldSkipIfLarger(originalBytes, candidateBytes, settings) ==
    ~settings.allowLargerOutput /\ candidateBytes >= originalBytes

usesSmartSearch(builder, settings) == settings.smartCompressionMode /\ builder # "png"

(***************************************************************************)
(* SpecSelect: the candidates of one optimise or WebP action are built     *)
(* and the best one is picked.                                             *)
(***************************************************************************)
SsimValues == {899, 900, 979, 980, 989, 990, 994, 995, 998, 999}

LadderSsimValues == {989, 990, 994, 995}

SelectSettings ==
    [qualityGuardrailSsim : BOOLEAN, aggressivePng : BOOLEAN, smartCompressionMode : {FALSE},
     smartTarget : {"visually-lossless"}, qualityGuardrail : {90}, optimizationSpeed : {"balanced"},
     jpegQualityMode : {"auto", "fixed"}, jpegQuality : {82},
     webpQualityMode : {"auto"}, webpQuality : {80}]
    \cup
    [qualityGuardrailSsim : BOOLEAN, aggressivePng : {FALSE}, smartCompressionMode : {TRUE},
     smartTarget : {"visually-lossless", "high", "balanced", "small", "custom"},
     qualityGuardrail : {90, 98}, optimizationSpeed : {"fast", "balanced", "thorough"},
     jpegQualityMode : {"auto"}, jpegQuality : {82},
     webpQualityMode : {"auto"}, webpQuality : {80}]

InitSelect ==
    /\ IdleRest
    /\ IdleJob
    /\ IdleWrite
    /\ IdleDirect
    /\ IdleRun
    /\ IdleFile
    /\ IdleSelect
    /\ IdleWatch
    /\ IdleStable
    /\ IdlePool

\* runOptimizeAction / runWebpAction call the builder of the file's type.
SelStart ==
    /\ sel.pc = "idle"
    /\ \E settings \in SelectSettings, builder \in {"jpeg", "png", "webp"}, isPhoto \in BOOLEAN :
         sel' = [pc |-> IF usesSmartSearch(builder, settings) THEN "search" ELSE "ladder",
                 settings |-> settings, builder |-> builder,
                 ladder |-> ladderOf(builder, settings), idx |-> 1, candidates |-> <<>>,
                 min |-> searchMin(isPhoto, builder), max |-> 95, i |-> 0, best |-> NoCandidate,
                 chosen |-> NoCandidate, failed |-> {},
                 originalBytes |-> 0, allowLargerOutput |-> FALSE, exportPreset |-> "original",
                 outputBytes |-> 0, decision |-> "",
                 min0 |-> searchMin(isPhoto, builder), bestQ |-> 0, probed |-> {}, passed |-> {}]

\* One turn of a builder's loop: the encoder runs, the candidate is
\* evaluated and kept or dropped; a missing binary is thrown on.
SelLadderStep ==
    /\ sel.pc = "ladder"
    /\ LET needsSsim == sel.ladder[sel.idx]
           next == IF sel.idx = Len(sel.ladder) THEN "built" ELSE "ladder"
       IN \/ sel' = [sel EXCEPT !.pc = next, !.idx = @ + 1, !.failed = @ \cup {sel.idx}]
          \/ sel' = [sel EXCEPT !.pc = "thrown"]
          \/ \E bytes \in {1, 2}, mssim \in (IF needsSsim THEN LadderSsimValues ELSE {1000}) :
               sel' = [sel EXCEPT
                         !.pc = next, !.idx = @ + 1,
                         !.candidates = IF evaluateCandidate(needsSsim, mssim, getSsimThreshold(sel.settings))
                                        THEN Append(@, Candidate(bytes, mssim, needsSsim))
                                        ELSE @]

\* One turn of the loop of findOptimalQuality; after the last one the
\* builder returns [best] or [].
SelSearchStep ==
    /\ sel.pc = "search"
    /\ LET q == (sel.min + sel.max) \div 2
           ended(s) == s.i >= searchIterations(s.settings) \/ s.min > s.max
           close(s) == IF ended(s)
                       THEN [s EXCEPT !.pc = "built",
                                      !.candidates = IF s.best.none THEN <<>> ELSE <<s.best>>]
                       ELSE s
       IN \/ sel' = close(searchNext(sel, q, FALSE, NoCandidate))
          \/ \E mssim \in SsimValues, bandingRisk \in {4, 5} :
               sel' = close(searchNext(sel, q,
                                       searchAccepts(mssim, bandingRisk, targetThreshold(sel.settings)),
                                       Candidate(q, mssim, TRUE)))

\* pickBest(candidates).
SelPick ==
    /\ sel.pc = "built"
    /\ sel' = [sel EXCEPT !.pc = "picked", !.chosen = pickBest(sel.candidates)]

\* runOptimizeAction after the builder: an error of the builder and a
\* missing best candidate skip the file; applyExportPreset hands the buffer
\* on as it is, or re-encoded by the design preset; an output that
\* shouldSkipIfLarger rejects skips the file, any other is written.
SelDecide ==
    \/ /\ sel.pc = "thrown"
       /\ sel' = [sel EXCEPT !.pc = "decided", !.decision = "Missing optimizer binary"]
    \/ /\ sel.pc = "picked"
       /\ \E originalBytes \in {1, 2}, allowLargerOutput \in BOOLEAN,
             exportPreset \in {"original", "web", "design"}, designBytes \in {1, 2} :
            LET applied == IF exportPreset = "design" THEN designBytes ELSE sel.chosen.bytes
                decision ==
                    IF sel.chosen.none THEN "No candidate met quality threshold"
                    ELSE IF shouldSkipIfLarger(originalBytes, applied,
                                               [allowLargerOutput |-> allowLargerOutput])
                    THEN "Skipped (larger)"
                    ELSE "written"
            IN  sel' = [sel EXCEPT !.pc = "decided", !.originalBytes = originalBytes,
                                   !.allowLargerOutput = allowLargerOutput,
                                   !.exportPreset = exportPreset,
                                   !.outputBytes = IF decision = "written" THEN applied ELSE 0,
                                   !.decision = decision]

NextSelect ==
    \/ SelStart /\ SelectFrame
    \/ SelLadderStep /\ SelectFrame
    \/ SelSearchStep /\ SelectFrame
    \/ SelPick /\ SelectFrame

SpecSelect == InitSelect /\ [][NextSelect]_vars

(***************************************************************************)
(* SpecOptimizePng: runOptimizeAction on a PNG file, from the loop of      *)
(* buildPngCandidates to the decision about the file.                      *)
(***************************************************************************)
SelStartPng == SelStart /\ sel'.builder = "png"

NextOptimizePng ==
    \/ SelStartPng /\ SelectFrame
    \/ SelLadderStep /\ SelectFrame
    \/ SelPick /\ SelectFrame
    \/ SelDecide /\ SelectFrame

SpecOptimizePng == InitSelect /\ [][NextOptimizePng]_vars

C11_AggregateIdentity ==
    run.pc = "returned" =>
        summaryOf(run).totalFiles =
            summaryOf(run).processedFiles + summaryOf(run).skippedFiles
            + summaryOf(run).failedFiles + Cardinality(cancelledFiles(run))

\* C12: when the run is cancelled before any file is dispatched, every input
\* file is reported cancelled, no task is started and nothing is written.
C12_CancelBeforeDispatch ==
    (dr.pc = "finished" /\ \A i \in DOMAIN tasks : tasks[i].pc = "dropped") =>
        /\ \A i \in DOMAIN tasks : tasks[i].job.status = "cancelled"
        /\ dr.done = dr.total
        /\ \A p \in DOMAIN fs : \E i \in DOMAIN tasks : p = DirectInput(i) /\ fs[p] = OldBytes

\* C13: once the cancel flag of a run is set no further file is pulled from
\* the input list; when the worker loops have ended every file is terminal
\* (the files not dispatched are Cancelled) and the run goes on to its final
\* event, which carries cancelled = true.
C13_CancelStopsPulling ==
    [][ /\ (run.pc = "await" /\ run.cancelled)
           => /\ \A f \in 1..run.total :
                   run'.fileStatus[f] = "Processing" => run.fileStatus[f] = "Processing"
              /\ (run'.pc = "closing"
                    => /\ ~run'.threw
                       /\ \A f \in 1..run.total :
                            /\ run'.fileStatus[f] \in FileStatusTerminal
                            /\ (run.fileStatus[f] = "Pending" => run'.fileStatus[f] = "Cancelled"))
        /\ (run'.pc = "returned" /\ run.pc # "returned" /\ run.cancelled) => run'.finalCancelled ]_vars

\* C14: a task that is running when the cancel flag is set and has not yet
\* reached a write writes no output afterwards (its result is discarded).
C14_NoWriteAfterCancel ==
    [][\A i \in DOMAIN ft :
         (fr.cancelled /\ i \in fr.earlyAtCancel
          /\ ft[i].pc \in {"optimiseWrite", "webpWrite"} /\ ft'[i].pc # ft[i].pc)
         => fs' = fs]_vars

(***************************************************************************)
(* watch/watcher.ts: WatchFolderService.  A queued item is the object      *)
(* {filePath, retryCount} of the code plus ev, the number of the file      *)
(* event it descends from.  A fingerprint (size, mtime, hash) is a number: *)
(* two fingerprints are equal exactly when the numbers are.  pool.run is   *)
(* the boundary of this specification: a lifecycle at "pool" has posted    *)
(* its task and waits for the response.                                    *)
(***************************************************************************)
MaxWatchEvents == 2

SUPPORTED_EXTENSIONS == {".jpg", ".jpeg", ".png", ".webp", ".tif", ".tiff"}

toLowerCase(ext) ==
    CASE ext = ".JPG" -> ".jpg"
      [] ext = ".PNG" -> ".png"
      [] OTHER -> ext

isSupportedFile(path) == toLowerCase(path.ext) \in SUPPORTED_EXTENSIONS

WatchPaths == {[base |-> "a", ext |-> ".png"], [base |-> "b", ext |-> ".JPG"], [base |-> "n", ext |-> ".txt"]}

WatchSettings == [triggerBehavior : {"new", "modified"}, outputMode : {"subfolder", "replace"}]

WatchOut == [attempts |-> 0, posted |-> 0, threw |-> FALSE, failed |-> 0, failedAt |-> 0, already |-> 0, replay |-> FALSE,
             detected |-> FALSE, optimized |-> 0]

\* pumpQueue: while a slot is free and the queue is not empty, the head is
\* shifted and its lifecycle starts (up to its first await).
RECURSIVE pumpQueue(_)
pumpQueue(w) ==
    IF w.activeJobs < w.maxConcurrent /\ w.queue # <<>>
    THEN LET next == Head(w.queue)
         IN pumpQueue([w EXCEPT !.queue = Tail(@),
                                !.pending = @ \ {next.filePath},
                                !.inFlight = @ \cup {next.filePath},
                                !.activeJobs = @ + 1,
                                !.lives = @ \cup {[item |-> next, pc |-> "stable", fingerprint |-> 0, replayed |-> FALSE]},
                                !.out[next.ev].attempts = @ + 1])
    ELSE w

\* onFileEvent, for the event numbered ev.
onFileEvent(w, event, filePath, ev) ==
    IF ~isSupportedFile(filePath) THEN w
    ELSE IF event = "change" /\ w.settings.triggerBehavior = "new" THEN w
    ELSE IF filePath \in w.pending \/ filePath \in w.inFlight THEN w
    ELSE pumpQueue([w EXCEPT !.pending = @ \cup {filePath},
                             !.queue = Append(@, [filePath |-> filePath, retryCount |-> 0, ev |-> ev]),
                             !.out[ev].replay = w.sinceMark[filePath] = "unchanged",
                             !.out[ev].detected = TRUE])

\* emitOptimized, for the event numbered ev: one onOptimized callback.
emitOptimized(w, ev) == [w EXCEPT !.out[ev].optimized = @ + 1]

\* The retry limit of the catch block (item.retryCount < 2) and its delay.
MaxRetries == 2

retryDelay(item) == 3000 * (item.retryCount + 1)

\* The catch block of processFileWithLifecycle.
lifecycleCatch(w, item) ==
    IF item.retryCount < MaxRetries
    THEN [w EXCEPT !.timers = @ \cup {[item |-> [item EXCEPT !.retryCount = @ + 1], delay |-> retryDelay(item)]},
                   !.out[item.ev].threw = TRUE]
    ELSE emitOptimized([w EXCEPT !.out[item.ev].failed = @ + 1, !.out[item.ev].failedAt = item.retryCount,
                                 !.out[item.ev].threw = TRUE], item.ev)

\* The finally callback pumpQueue attached to the lifecycle l.
lifecycleFinally(w, l) ==
    pumpQueue([w EXCEPT !.lives = @ \ {l},
                        !.inFlight = @ \ {l.item.filePath},
                        !.activeJobs = @ - 1])

\* ProcessedIndexStore.hasBeenProcessed and markProcessed.
hasBeenProcessed(w, filePath, fingerprint) ==
    filePath \in DOMAIN w.index /\ w.index[filePath] = fingerprint

markProcessed(w, filePath, fingerprint) ==
    [w EXCEPT !.index = [p \in DOMAIN w.index \cup {filePath} |->
                           IF p = filePath THEN fingerprint ELSE w.index[p]],
              !.sinceMark[filePath] = "unchanged"]

IdleWatchOthers ==
    /\ IdleRest
    /\ IdleJob
    /\ IdleWrite
    /\ IdleDirect
    /\ IdleRun
    /\ IdleFile
    /\ IdleSelect
    /\ IdleStable
    /\ IdlePool

InitWatch ==
    /\ IdleWatchOthers
    /\ \E settings \in WatchSettings, cores \in {2, 3} :
         ws = [pc |-> "running",
               settings |-> settings,
               maxConcurrent |-> getAutoConcurrency(cores),
               queue |-> <<>>,
               pending |-> {},
               inFlight |-> {},
               activeJobs |-> 0,
               timers |-> {},
               lives |-> {},
               index |-> <<>>,
               sinceMark |-> [p \in WatchPaths |-> "none"],
               events |-> 0,
               out |-> [e \in 1..MaxWatchEvents |-> WatchOut]]
    /\ wfiles = [p \in WatchPaths |-> 1]

\* chokidar reports an add or a change of a file of the folder.
WatchFileEvent ==
    /\ ws.pc = "running"
    /\ ws.events < MaxWatchEvents
    /\ \E event \in {"add", "change"}, filePath \in WatchPaths :
         ws' = onFileEvent([ws EXCEPT !.events = @ + 1], event, filePath, ws.events + 1)
    /\ UNCHANGED wfiles

\* A retry timer fires.
WatchTimerFires ==
    /\ ws.pc = "running"
    /\ \E t \in ws.timers :
         ws' = pumpQueue([ws EXCEPT !.timers = @ \ {t}, !.queue = Append(@, t.item)])
    /\ UNCHANGED wfiles

\* waitUntilStable returns: true goes on to the size check, false throws.
LifeStable ==
    /\ ws.pc = "running"
    /\ \E l \in ws.lives, isStable \in BOOLEAN :
         /\ l.pc = "stable"
         /\ ws' = IF isStable
                  THEN [ws EXCEPT !.lives = (@ \ {l}) \cup {[l EXCEPT !.pc = "check"]}]
                  ELSE lifecycleFinally(lifecycleCatch(ws, l.item), l)
    /\ UNCHANGED wfiles

\* fs.stat, the size check, getFingerprint and the de-duplication check, up
\* to pool.run inside runOptimization.
LifeCheck ==
    /\ ws.pc = "running"
    /\ \E l \in ws.lives, outcome \in {"statThrows", "tooLarge", "fits"} :
         /\ l.pc = "check"
         /\ ws' = CASE outcome = "statThrows" -> lifecycleFinally(lifecycleCatch(ws, l.item), l)
                    [] outcome = "tooLarge" -> lifecycleFinally(emitOptimized(ws, l.item.ev), l)
                    [] outcome = "fits" ->
                         IF hasBeenProcessed(ws, l.item.filePath, wfiles[l.item.filePath])
                         THEN lifecycleFinally(emitOptimized([ws EXCEPT !.out[l.item.ev].already = @ + 1], l.item.ev), l)
                         ELSE [ws EXCEPT !.lives = (@ \ {l}) \cup
                                                    {[l EXCEPT !.pc = "pool",
                                                               !.fingerprint = wfiles[l.item.filePath],
                                                               !.replayed = ws.out[l.item.ev].replay
                                                                            /\ ws.sinceMark[l.item.filePath] = "unchanged"]},
                                         !.out[l.item.ev].posted = @ + 1]
    /\ UNCHANGED wfiles

\* What the worker answers: ok:false (or a rejection), or ok:true with the
\* status of the action.
WatchResponses == {"okFalse", "success", "skipped", "failed"}

\* A success in replace mode has rewritten the watched file itself.
writtenBy(files, w, filePath, response) ==
    IF response = "success" /\ w.settings.outputMode = "replace"
    THEN [files EXCEPT ![filePath] = @ + 1]
    ELSE files

\* runOptimization after `await this.pool.run(task)`.
runOptimization(w, l, response) ==
    CASE response = "okFalse" -> lifecycleCatch(w, l.item)
      [] response = "success" -> emitOptimized(markProcessed(w, l.item.filePath, l.fingerprint), l.item.ev)
      [] response = "failed" -> emitOptimized([w EXCEPT !.out[l.item.ev].failed = @ + 1,
                                                        !.out[l.item.ev].failedAt = l.item.retryCount], l.item.ev)
      [] OTHER -> emitOptimized(w, l.item.ev)

LifeResponse ==
    /\ ws.pc = "running"
    /\ \E l \in ws.lives, response \in WatchResponses :
         /\ l.pc = "pool"
         /\ wfiles' = writtenBy(wfiles, ws, l.item.filePath, response)
         /\ ws' = lifecycleFinally(
                    runOptimization([ws EXCEPT !.sinceMark[l.item.filePath] =
                                                 IF wfiles'[l.item.filePath] # wfiles[l.item.filePath] /\ @ = "unchanged"
                                                 THEN "changed" ELSE @],
                                    l, response), l)

NextWatch ==
    \/ WatchFileEvent /\ WatchFrame
    \/ WatchTimerFires /\ WatchFrame
    \/ LifeStable /\ WatchFrame
    \/ LifeCheck /\ WatchFrame
    \/ LifeResponse /\ WatchFrame

SpecWatch == InitWatch /\ [][NextWatch]_vars

\* The lifecycles of a path that are queued or running.
queuedFor(w, filePath) == {i \in DOMAIN w.queue : w.queue[i].filePath = filePath}

runningFor(w, filePath) == {l \in w.lives : l.item.filePath = filePath}

\* C15: at no time are two lifecycles for the same path queued or running
\* at once, items requeued by the retry timer included.
C15_OneLifecyclePerPath ==
    ws.pc = "running" =>
        \A filePath \in WatchPaths :
            Cardinality(queuedFor(ws, filePath)) + Cardinality(runningFor(ws, filePath)) <= 1

\* C17: one file event is processed at most 3 times, a requeue waits 3 s x
\* attempt, and for an event whose processing threw `failed` is emitted at
\* most once, only after the second retry has failed and never while a
\* retry of it is pending.
C17_RetryThenFailed ==
    ws.pc = "running" =>
        /\ \A t \in ws.timers :
             /\ t.item.retryCount <= MaxRetries
             /\ t.delay = 3000 * t.item.retryCount
        /\ \A ev \in 1..MaxWatchEvents :
             /\ ws.out[ev].attempts <= MaxRetries + 1
             /\ ws.out[ev].failed <= 1
             /\ (ws.out[ev].threw /\ ws.out[ev].failed = 1) =>
                  /\ ws.out[ev].failedAt = MaxRetries
                  /\ ws.out[ev].attempts = MaxRetries + 1
                  /\ \A t \in ws.timers : t.item.ev # ev
                  /\ \A i \in DOMAIN ws.queue : ws.queue[i].ev # ev
                  /\ \A l \in ws.lives : l.item.ev # ev

\* C18: an event that arrives for a path after it was processed
\* successfully and marked, and is checked while the file on disk is still
\* as it was when it was marked, sends no task to the pool.
C18_ReplayIsSkipped ==
    ws.pc = "running" => \A l \in ws.lives : ~(l.pc = "pool" /\ l.replayed)

\* The event ev still has a lifecycle queued, running or waiting on a retry
\* timer.
eventOpen(w, ev) ==
    \/ \E i \in DOMAIN w.queue : w.queue[i].ev = ev
    \/ \E l \in w.lives : l.item.ev = ev
    \/ \E t \in w.timers : t.item.ev = ev

\* The path of the event ev while one of its lifecycles runs.
pathOf(w, ev) == (CHOOSE l \in w.lives : l.item.ev = ev).item.filePath

\* The step in which the onOptimized callback of ev is called; the finally
\* callback of its lifecycle runs in the same step.
emitsOptimized(ev) == ws.out[ev].optimized = 0 /\ ws'.out[ev].optimized = 1

\* C37: an accepted file event (onDetected emitted) gets one terminal
\* onOptimized event and no more: until then one lifecycle of it is queued,
\* running or waiting on its retry timer, afterwards none is; when the
\* event has been emitted the path is neither pending nor in flight, and
\* activeJobs counts the running lifecycles, each one having given back the
\* slot it took.
C37_AcceptedEventEndsOnce ==
    [][ \A ev \in 1..MaxWatchEvents :
          /\ ws'.out[ev].optimized <= 1
          /\ (ws'.out[ev].detected /\ ws'.out[ev].optimized = 0) => eventOpen(ws', ev)
          /\ ws'.out[ev].optimized = 1 => ~eventOpen(ws', ev)
          /\ emitsOptimized(ev) => pathOf(ws, ev) \notin (ws'.pending \cup ws'.inFlight)
          /\ ws'.activeJobs = Cardinality(ws'.lives) ]_vars

(***************************************************************************)
(* watch/stability.ts: StabilityChecker.waitUntilStable, called by one     *)
(* lifecycle of the watcher.  Time is the number of milliseconds since     *)
(* startTime, read at the head of the loop; history keeps the last         *)
(* stabilityThreshold + 1 readings of stat.                                *)
(***************************************************************************)
intervalMs == 500

stabilityThreshold == 3

timeoutMs == 30000

Readings == [size : {1, 2}, mtime : {1, 2}]

remember(history, reading) ==
    IF Len(history) > stabilityThreshold THEN Append(Tail(history), reading) ELSE Append(history, reading)

\* probe without the else branch: a changed reading leaves stableCount as it is.
probeNoReset(c, reading) ==
    LET same == reading.size = c.lastSize /\ reading.mtime = c.lastMtime
        count == IF same THEN c.stableCount + 1 ELSE c.stableCount
    IN [c EXCEPT !.stableCount = count,
                 !.lastSize = reading.size,
                 !.lastMtime = reading.mtime,
                 !.history = remember(@, reading),
                 !.wasReset = @ \/ (~same /\ c.history # <<>>),
                 !.pc = IF count >= stabilityThreshold THEN "returned" ELSE "loop",
                 !.result = IF count >= stabilityThreshold THEN "true" ELSE @,
                 !.now = IF count >= stabilityThreshold THEN @ ELSE @ + intervalMs]

\* The try block of the loop for a stat that succeeded, and the sleep.
probe(c, reading) ==
    LET same == reading.size = c.lastSize /\ reading.mtime = c.lastMtime
        count == IF same THEN c.stableCount + 1 ELSE 0
    IN [c EXCEPT !.stableCount = count,
                 !.lastSize = IF same THEN @ ELSE reading.size,
                 !.lastMtime = IF same THEN @ ELSE reading.mtime,
                 !.history = remember(@, reading),
                 !.wasReset = @ \/ (~same /\ c.history # <<>>),
                 !.pc = IF count >= stabilityThreshold THEN "returned" ELSE "loop",
                 !.result = IF count >= stabilityThreshold THEN "true" ELSE @,
                 !.now = IF count >= stabilityThreshold THEN @ ELSE @ + intervalMs]

InitStable ==
    /\ IdleRest
    /\ IdleJob
    /\ IdleWrite
    /\ IdleDirect
    /\ IdleRun
    /\ IdleFile
    /\ IdleSelect
    /\ IdleWatch
    /\ IdlePool
    /\ sc = [pc |-> "loop", lastSize |-> -1, lastMtime |-> -1, stableCount |-> 0, now |-> 0,
             history |-> <<>>, wasReset |-> FALSE, result |-> "none", cause |-> "none",
             life |-> "stable", dispatched |-> FALSE]

\* One turn of the loop whose stat succeeds.
StableProbe ==
    /\ sc.pc = "loop"
    /\ sc.now < timeoutMs
    /\ \E reading \in Readings : sc' = probe(sc, reading)

\* One turn of the loop whose stat throws: the file is gone.
StableMissing ==
    /\ sc.pc = "loop"
    /\ sc.now < timeoutMs
    /\ sc' = [sc EXCEPT !.pc = "returned", !.result = "false", !.cause = "missing"]

\* The loop condition fails.
StableTimeout ==
    /\ sc.pc = "loop"
    /\ sc.now >= timeoutMs
    /\ sc' = [sc EXCEPT !.pc = "returned", !.result = "false", !.cause = "timeout"]

\* processFileWithLifecycle after the await: not stable throws.
StableGate ==
    /\ sc.pc = "returned"
    /\ sc.life = "stable"
    /\ sc' = [sc EXCEPT !.life = IF sc.result = "true" THEN "check" ELSE "threw"]

\* The size check, the de-duplication check and pool.run.
StableDispatch ==
    /\ sc.life = "check"
    /\ \E outcome \in {"statThrows", "tooLarge", "already", "fits"} :
         sc' = [sc EXCEPT !.life = IF outcome = "fits" THEN "pool" ELSE outcome,
                          !.dispatched = outcome = "fits"]

NextStable ==
    \/ StableProbe /\ StableFrame
    \/ StableMissing /\ StableFrame
    \/ StableTimeout /\ StableFrame
    \/ StableGate /\ StableFrame
    \/ StableDispatch /\ StableFrame

SpecStable == InitStable /\ [][NextStable]_vars

\* The number of probes at the end of the history that equal the reading
\* before them, up to stabilityThreshold.
RECURSIVE unchangedRun(_, _)
unchangedRun(history, n) ==
    IF n <= 1 \/ history[n] # history[n - 1] THEN 0 ELSE 1 + unchangedRun(history, n - 1)

\* C16: waitUntilStable returns true only after 3 consecutive probes that
\* equal the reading before them, a changed reading resets the count to 0,
\* it returns false when the file is missing or 30 s have passed, and the
\* lifecycle dispatches to the pool only after it returned true.
C16_StabilityGate ==
    sc.pc # "idle" =>
        /\ sc.stableCount = unchangedRun(sc.history, Len(sc.history))
        /\ sc.result = "true" => unchangedRun(sc.history, Len(sc.history)) = stabilityThreshold
        /\ sc.result = "true" => sc.now < timeoutMs
        /\ sc.result = "false" => (sc.cause = "missing" \/ (sc.cause = "timeout" /\ sc.now >= timeoutMs))
        /\ sc.pc = "loop" => (sc.result = "none" /\ sc.now <= timeoutMs)
        /\ sc.dispatched => sc.result = "true"
        /\ sc.life # "stable" => sc.pc = "returned"

C16_Witness ==
    /\ sc.pc = "returned"
    /\ sc.dispatched
    /\ sc.wasReset
    /\ sc.now > stabilityThreshold * intervalMs

(***************************************************************************)
(* optimizer/workerPool.ts under arbitrary callers: run is called for the  *)
(* tasks 1, 2, ... in this order; a worker thread given a task posts the   *)
(* log message of processFile and then its response, and may die of an     *)
(* uncaught error.  posts lists the tasks in the order in which            *)
(* worker.postMessage was called for them, work the tasks given to the     *)
(* threads and how far each is, answers what each promise resolved with.   *)
(***************************************************************************)
MaxPoolTasks == 4

\* The tasks that postMessage was called for between the pools p and q.
newlyPosted(p, q) ==
    {q.workers[w].current :
        w \in {v \in DOMAIN q.workers : q.workers[v].busy /\ q.workers[v].current # p.workers[v].current}}

RECURSIVE asSeq(_)
asSeq(S) == IF S = {} THEN <<>> ELSE LET x == CHOOSE y \in S : TRUE IN <<x>> \o asSeq(S \ {x})

posted(c, q, by) ==
    [c EXCEPT !.pool = q,
              !.posts = @ \o [i \in 1..Cardinality(newlyPosted(c.pool, q)) |->
                                [task |-> asSeq(newlyPosted(c.pool, q))[i].file, by |-> by]],
              !.work = [t \in DOMAIN @ \cup {j.file : j \in newlyPosted(c.pool, q)} |->
                          IF t \in DOMAIN @ THEN @[t]
                          ELSE [worker |-> CHOOSE w \in DOMAIN q.workers : q.workers[w].current.file = t,
                                stage |-> "posted"]]]

NoAnswer == [kind |-> "none", inputPath |-> 0]

\* worker.on('message'): without a current job the message is dropped, else
\* the current job's promise is resolved with the message, whatever it is.
deliver(c, w, message) ==
    IF c.pool.workers[w].current = NoJob THEN c
    ELSE posted([c EXCEPT !.settled[c.pool.workers[w].current.file] = "resolved",
                          !.answers[c.pool.workers[w].current.file] = message],
                onMessage(c.pool, w), "message")

InitPool ==
    /\ IdleRest
    /\ IdleJob
    /\ IdleWrite
    /\ IdleDirect
    /\ IdleRun
    /\ IdleFile
    /\ IdleSelect
    /\ IdleWatch
    /\ IdleStable
    /\ \E size \in 0..2 :
         wp = [pc |-> "running", pool |-> newWorkerPool(size), submitted |-> 0,
               posts |-> <<>>, settled |-> <<>>, work |-> <<>>, answers |-> <<>>]

\* run(task): the task is queued and pump is called.
PoolRun ==
    /\ wp.pc = "running"
    /\ wp.submitted < MaxPoolTasks
    /\ wp' = posted([wp EXCEPT !.submitted = @ + 1,
                               !.settled = Append(@, "pending"),
                               !.answers = Append(@, NoAnswer)],
                    poolRun(wp.pool, [loop |-> 0, file |-> wp.submitted + 1]), "run")

\* A live worker starts processFile for a task it was given: Logger.log
\* posts { type: 'worker:log', ... } to the pool.
PoolLog(t) ==
    /\ wp.pc = "running"
    /\ t \in DOMAIN wp.work
    /\ wp.work[t].stage = "posted"
    /\ wp.pool.workers[wp.work[t].worker].alive
    /\ wp' = deliver([wp EXCEPT !.work[t].stage = "logged"], wp.work[t].worker,
                     [kind |-> "log", inputPath |-> 0])

\* A live worker posts the response of a task it was given.
PoolMessage(t) ==
    /\ wp.pc = "running"
    /\ t \in DOMAIN wp.work
    /\ wp.work[t].stage = "logged"
    /\ wp.pool.workers[wp.work[t].worker].alive
    /\ wp' = deliver([wp EXCEPT !.work[t].stage = "answered"], wp.work[t].worker,
                     [kind |-> "response", inputPath |-> t])

\* A live worker thread dies of an uncaught error: the 'error' handler.
PoolError(w) ==
    /\ wp.pc = "running"
    /\ w \in DOMAIN wp.pool.workers
    /\ wp.pool.workers[w].alive
    /\ wp' = posted(IF wp.pool.workers[w].busy
                    THEN [wp EXCEPT !.settled[wp.pool.workers[w].current.file] = "rejected"]
                    ELSE wp,
                    onError(wp.pool, w), "error")

NextPool ==
    \/ PoolRun /\ PoolFrame
    \/ (\E t \in 1..MaxPoolTasks : PoolLog(t)) /\ PoolFrame
    \/ (\E t \in 1..MaxPoolTasks : PoolMessage(t)) /\ PoolFrame
    \/ (\E w \in 1..2 : PoolError(w)) /\ PoolFrame

SpecPool == InitPool /\ [][NextPool]_vars

\* C19: tasks are posted to workers in the order in which run was called
\* for them: the i-th post is the i-th task submitted.
C19_PostedInSubmissionOrder ==
    wp.pc = "running" => \A i \in DOMAIN wp.posts : wp.posts[i].task = i

C19_Witness ==
    /\ wp.pc = "running"
    /\ Len(wp.posts) >= 3
    /\ \E i \in DOMAIN wp.posts : wp.posts[i].by = "message"
    /\ wp.pool.queue # <<>>

\* C20: a crashed worker is replaced by a live one, so a task is never
\* held by a worker whose thread is gone (such a task is never settled).
C20_BusyWorkerIsAlive ==
    wp.pc = "running" =>
        \A w \in DOMAIN wp.pool.workers : wp.pool.workers[w].busy => wp.pool.workers[w].alive

\* C21: when a final write has failed, at whatever step, its temp file is
\* gone and the target path holds what it held before the write.
C21_FailedWriteCleansUp ==
    (aw.pc = "done" /\ aw.result = "error") =>
        /\ ~Exists(fs, aw.tmp)
        /\ IF aw.pre.exists
           THEN Exists(fs, aw.target) /\ fs[aw.target] = aw.pre.bytes
           ELSE ~Exists(fs, aw.target)

\* C22: in replace mode the WebP action writes its file next to the
\* original only when the dangerous-replace confirmation is set and the
\* backup of the original has been taken.
C22_WebpBesideNeedsConfirmation ==
    [][\A i \in DOMAIN ft :
         (fr.pc = "running" /\ fr.settings.outputMode = "replace"
          /\ ft[i].pc = "webpWrite" /\ fs' # fs)
         => /\ fr.settings.confirmDangerousWebpReplace
            /\ Exists(fs, createBackupFilePath(fr.backupDir, ft[i].path))]_vars

(***************************************************************************)
(* SpecSubfolder: a run in subfolder mode.  The inputs are files the user  *)
(* picked one by one (resolveInputPaths keeps every supported file it is   *)
(* given); each task writes its output where runTask computes it.          *)
(***************************************************************************)
SubPaths ==
    {<<"/", "r", "/", "a", ".png">>,
     <<"/", "r", "/", "s", "/", "a", ".png">>,
     <<"/", "r", "/", "Optimized", "/", "a", ".png">>,
     <<"/", "r", "/", "Optimized", "/", "a", ".webp">>}

SubInputs ==
    {q \in UNION {[1..n -> SubPaths] : n \in 1..MaxInputFiles} :
        \A i, j \in DOMAIN q : i # j => q[i] # q[j]}

SubStart ==
    /\ sub.pc = "idle"
    /\ \E inputs \in SubInputs, mode \in {"optimize", "convertWebp"} :
         /\ fs' = [p \in {inputs[i] : i \in DOMAIN inputs} |-> OldBytes]
         /\ sub' = [pc |-> "running", inputs |-> inputs, mode |-> mode,
                    commonRoot |-> getCommonBaseDir(inputs),
                    task |-> [i \in DOMAIN inputs |-> "queued"], written |-> {}]

\* runTask step 5: the output path of a task.
subTargetPath(inputPath, commonRoot, mode) ==
    IF encoderFormat(mode) = "webp"
    THEN outputPathForWebp(inputPath, commonRoot, "subfolder")
    ELSE outputPathForOriginal(inputPath, commonRoot, "subfolder")

\* runTask from its start to the end of atomicWrite: the output is written,
\* or the task fails or is skipped before anything is written.
SubTask(i) ==
    /\ sub.pc = "running"
    /\ i \in DOMAIN sub.inputs
    /\ sub.task[i] = "queued"
    /\ LET target == subTargetPath(sub.inputs[i], sub.commonRoot, sub.mode)
           format == IF sub.mode = "convertWebp" THEN "webp" ELSE getOutputFormatForPath(sub.inputs[i])
       IN \/ /\ fs' = Put(fs, target, <<MagicOf(format), 5>>)
             /\ sub' = [sub EXCEPT !.task[i] = "success", !.written = @ \cup {target}]
          \/ /\ UNCHANGED fs
             /\ sub' = [sub EXCEPT !.task[i] = "failed"]

SubFinish ==
    /\ sub.pc = "running"
    /\ \A i \in DOMAIN sub.inputs : sub.task[i] # "queued"
    /\ sub' = [sub EXCEPT !.pc = "finished"]
    /\ UNCHANGED fs

InitSubfolder ==
    /\ IdleJob
    /\ IdleWrite
    /\ IdleDirect
    /\ IdleRun
    /\ IdleFile
    /\ IdleSelect
    /\ IdleWatch
    /\ IdleStable
    /\ IdlePool
    /\ IdleLast
    /\ IdleSubfolder
    /\ IdleRunIds
    /\ IdleFn

NextSubfolder ==
    \/ SubStart /\ SubfolderFrame
    \/ (\E i \in 1..MaxInputFiles : SubTask(i)) /\ SubfolderFrame
    \/ SubFinish /\ SubfolderFrame

SpecSubfolder == InitSubfolder /\ [][NextSubfolder]_vars

\* C23: in subfolder mode every file written lies under
\* <common_root>/Optimized/ and every input file keeps its content.
C23_SubfolderKeepsInputs ==
    sub.pc # "idle" =>
        /\ \A w \in sub.written : startsWith(w, sub.commonRoot \o <<"/", "Optimized", "/">>)
        /\ \A i \in DOMAIN sub.inputs :
             Exists(fs, sub.inputs[i]) /\ fs[sub.inputs[i]] = OldBytes

(***************************************************************************)
(* SpecRunIds: main.ts run:start.  The clock counts milliseconds; each run *)
(* works in replace mode on the same file, backs it up into the directory  *)
(* `Originals Backup/<run_id>/` and then writes its output over it.        *)
(* backupDirs maps a run id to the content of the backup file in that      *)
(* directory.                                                              *)
(***************************************************************************)
MaxClockMs == 2000

MaxRuns == 2

\* createTimestamp: `${year}-${month}-${day}_${hours}-${minutes}-${seconds}`
\* of the local time; the milliseconds are not part of it.
createTimestamp(now) ==
    [date |-> "2026-11-03", minutes |-> now \div 60000, seconds |-> (now \div 1000) % 60]

IdsInput == <<"/", "d", "/", "a", ".jpg">>

InitRunIds ==
    /\ IdleJob
    /\ IdleDirect
    /\ IdleRun
    /\ IdleFile
    /\ IdleSelect
    /\ IdleWatch
    /\ IdleStable
    /\ IdlePool
    /\ IdleLast
    /\ IdleSubfolder
    /\ IdleFn
    /\ aw = [pc |-> "idle"]
    /\ awCalls = 0
    /\ fs = Put(<<>>, IdsInput, OldBytes)
    /\ ids = [pc |-> "running", now |-> 0, runs |-> <<>>, backupDirs |-> <<>>]

\* Time passes.
IdsTick ==
    /\ ids.pc = "running"
    /\ ids.now < MaxClockMs
    /\ ids' = [ids EXCEPT !.now = @ + 500]
    /\ UNCHANGED fs

\* ipcMain.handle('run:start'): the run id is the timestamp of the call.
IdsRunStart ==
    /\ ids.pc = "running"
    /\ Len(ids.runs) < MaxRuns
    /\ ids' = [ids EXCEPT !.runs = Append(@, [runId |-> createTimestamp(ids.now), pc |-> "backup",
                                                backed |-> <<>>])]
    /\ UNCHANGED fs

\* ensureBackup of a run: fs.copyFile(originalPath, backupPath).
IdsBackup(r) ==
    /\ ids.pc = "running"
    /\ r \in DOMAIN ids.runs
    /\ ids.runs[r].pc = "backup"
    /\ ids' = [ids EXCEPT !.runs[r].pc = "write",
                          !.runs[r].backed = fs[IdsInput],
                          !.backupDirs = Put(@, ids.runs[r].runId, fs[IdsInput])]
    /\ UNCHANGED fs

\* The run replaces the original by its output.
IdsWrite(r) ==
    /\ ids.pc = "running"
    /\ r \in DOMAIN ids.runs
    /\ ids.runs[r].pc = "write"
    /\ fs' = Put(fs, IdsInput, <<1, r>>)
    /\ ids' = [ids EXCEPT !.runs[r].pc = "done"]

NextRunIds ==
    \/ IdsTick /\ RunIdsFrame
    \/ IdsRunStart /\ RunIdsFrame
    \/ (\E r \in 1..MaxRuns : IdsBackup(r)) /\ RunIdsFrame
    \/ (\E r \in 1..MaxRuns : IdsWrite(r)) /\ RunIdsFrame

SpecRunIds == InitRunIds /\ [][NextRunIds]_vars

\* C24: two distinct runs have distinct run ids, and the backup a run took
\* stays in its backup directory as the run took it.
C24_RunIdsDistinct ==
    ids.pc = "running" =>
        /\ \A i, j \in DOMAIN ids.runs : i # j => ids.runs[i].runId # ids.runs[j].runId
        /\ \A r \in DOMAIN ids.runs :
             ids.runs[r].pc \in {"write", "done"}
             => ids.backupDirs[ids.runs[r].runId] = ids.runs[r].backed

(***************************************************************************)
(* SpecFn: the pure functions of part_018 (optimizer/index.ts), called     *)
(* with arbitrary arguments.  Here a path is a sequence of pieces: "/" is  *)
(* the separator, "." a dot, anything else is text without either.         *)
(***************************************************************************)
MaxPathLen == 5

MaxBaseQuality == 110

PathPieces == {"/", ".", "a"}

SetMax(S) == CHOOSE x \in S : \A y \in S : y <= x

\* path.parse (posix): the root slash is not scanned, trailing separators are
\* ignored, the extension starts at the last dot of the base unless that
\* dot is its first character or the base is "..".
parse(p) ==
    LET isAbsolute == Len(p) > 0 /\ p[1] = "/"
        first == IF isAbsolute THEN 2 ELSE 1
        nonSep == {i \in first..Len(p) : p[i] # "/"}
        end == IF nonSep = {} THEN 0 ELSE SetMax(nonSep)
        seps == {i \in first..end : p[i] = "/"}
        startPart == IF seps = {} THEN first ELSE SetMax(seps) + 1
        base == SubSeq(p, startPart, end)
        dots == {i \in startPart..end : p[i] = "."}
        noExt == dots = {} \/ SetMax(dots) = startPart \/ base = <<".", ".">>
    IN  [dir  |-> IF seps # {} THEN SubSeq(p, 1, SetMax(seps) - 1)
                  ELSE IF isAbsolute THEN <<"/">> ELSE <<>>,
         base |-> base,
         name |-> IF noExt THEN base ELSE SubSeq(p, startPart, SetMax(dots) - 1)]

\* The segments of a path between separators, empty ones included.
RECURSIVE segments(_)
segments(p) ==
    IF \A i \in DOMAIN p : p[i] # "/" THEN <<p>>
    ELSE LET k == CHOOSE i \in DOMAIN p : p[i] = "/" /\ \A j \in 1..(i - 1) : p[j] # "/"
         IN  <<SubSeq(p, 1, k - 1)>> \o segments(SubSeq(p, k + 1, Len(p)))

\* normalizeString: empty and "." segments are dropped, ".." removes the
\* segment before it, or stays when the path is relative and there is none.
RECURSIVE normalizeString(_, _, _)
normalizeString(segs, res, allowAboveRoot) ==
    IF segs = <<>> THEN res
    ELSE LET s == Head(segs)
             r == IF s = <<>> \/ s = <<".">> THEN res
                  ELSE IF s = <<".", ".">>
                  THEN IF res # <<>> /\ res[Len(res)] # <<".", ".">>
                       THEN SubSeq(res, 1, Len(res) - 1)
                       ELSE IF allowAboveRoot THEN Append(res, s) ELSE res
                  ELSE Append(res, s)
         IN  normalizeString(Tail(segs), r, allowAboveRoot)

RECURSIVE joinSegments(_)
joinSegments(segs) ==
    IF segs = <<>> THEN <<>>
    ELSE IF Len(segs) = 1 THEN segs[1]
    ELSE segs[1] \o <<"/">> \o joinSegments(Tail(segs))

\* path.normalize of a path that does not end in a separator.
normalize(p) ==
    LET isAbsolute == Len(p) > 0 /\ p[1] = "/"
        body == joinSegments(normalizeString(segments(p), <<>>, ~isAbsolute))
    IN  IF isAbsolute THEN <<"/">> \o body
        ELSE IF body = <<>> THEN <<".">> ELSE body

\* path.join: the non-empty arguments joined by "/", then normalized.
RECURSIVE joinRaw(_)
joinRaw(parts) ==
    IF parts = <<>> THEN <<>>
    ELSE IF parts[1] = <<>> THEN joinRaw(Tail(parts))
    ELSE LET rest == joinRaw(Tail(parts))
         IN  IF rest = <<>> THEN parts[1] ELSE parts[1] \o <<"/">> \o rest

join(parts) == IF joinRaw(parts) = <<>> THEN <<".">> ELSE normalize(joinRaw(parts))

\* A variant of resolveWebpOutputPath that always answers the path beside the input.
resolveWebpOutputPathBeside(inputPath, outputMode) ==
    join(<<parse(inputPath).dir, parse(inputPath).name \o <<".", "webp">>>>)

resolveWebpOutputPath(inputPath, outputMode) ==
    LET parsed == parse(inputPath)
    IN  IF outputMode = "subfolder"
        THEN join(<<parsed.dir, <<"Optimized">>, parsed.name \o <<".", "webp">>>>)
        ELSE join(<<parsed.dir, parsed.name \o <<".", "webp">>>>)

\* A variant of getWebpQualityAttempts whose cap is 95 in both cases.
getWebpQualityAttemptsCap95(baseQuality, nearLossless) ==
    LET value(i) == Max(1, Min(95, baseQuality + 5 * i))
        o1 == <<value(0)>>
        o2 == IF \E k \in DOMAIN o1 : o1[k] = value(1) THEN o1 ELSE Append(o1, value(1))
    IN  IF \E k \in DOMAIN o2 : o2[k] = value(2) THEN o2 ELSE Append(o2, value(2))

\* The loop of getWebpQualityAttempts, its three rounds written out.
getWebpQualityAttempts(baseQuality, nearLossless) ==
    LET cap == IF nearLossless THEN 100 ELSE 95
        value(i) == Max(1, Min(cap, baseQuality + 5 * i))
        o1 == <<value(0)>>
        o2 == IF \E k \in DOMAIN o1 : o1[k] = value(1) THEN o1 ELSE Append(o1, value(1))
    IN  IF \E k \in DOMAIN o2 : o2[k] = value(2) THEN o2 ELSE Append(o2, value(2))

\* The paths given to resolveWebpOutputPath: any pieces, one at least not a separator.
FnPaths ==
    {p \in UNION {[1..n -> PathPieces] : n \in 1..MaxPathLen} : \E i \in DOMAIN p : p[i] # "/"}

InitFn ==
    /\ IdleJob
    /\ IdleWrite
    /\ IdleDirect
    /\ IdleRun
    /\ IdleFile
    /\ IdleSelect
    /\ IdleWatch
    /\ IdleStable
    /\ IdlePool
    /\ IdleLast
    /\ IdleSubfolder
    /\ IdleRunIds
    /\ fn = [pc |-> "idle"]

FnResolve ==
    /\ fn.pc = "idle"
    /\ \E inputPath \in FnPaths, outputMode \in {"replace", "subfolder"} :
        fn' = [pc |-> "resolveWebpOutputPath", inputPath |-> inputPath, outputMode |-> outputMode,
               result |-> resolveWebpOutputPath(inputPath, outputMode)]

FnAttempts ==
    /\ fn.pc = "idle"
    /\ \E baseQuality \in (0 - MaxBaseQuality)..MaxBaseQuality, nearLossless \in BOOLEAN :
        fn' = [pc |-> "getWebpQualityAttempts", baseQuality |-> baseQuality,
               nearLossless |-> nearLossless,
               result |-> getWebpQualityAttempts(baseQuality, nearLossless)]

MaxCommonInputs == 3

\* Files named f in directories whose names are spelled one character per
\* piece: /, /a, /ab, /b, /a/b and /ab/a.
CommonPaths ==
    {<<"/", "f">>,
     <<"/", "a", "/", "f">>,
     <<"/", "a", "b", "/", "f">>,
     <<"/", "b", "/", "f">>,
     <<"/", "a", "/", "b", "/", "f">>,
     <<"/", "a", "b", "/", "a", "/", "f">>}

\* executeRun computes the common root of the resolved input paths.
FnCommonBase ==
    /\ fn.pc = "idle"
    /\ \E paths \in UNION {[1..n -> CommonPaths] : n \in 1..MaxCommonInputs} :
         fn' = [pc |-> "getCommonBaseDir", paths |-> paths, result |-> getCommonBaseDir(paths)]

\* Originals of one replace-mode run, directory names spelled one character
\* per piece: /d/e/x, /d_e/x, /d:e/x, /d/x, /e/x and /d/e/y.
BackupOriginals ==
    {<<"/", "d", "/", "e", "/", "x">>,
     <<"/", "d", "_", "e", "/", "x">>,
     <<"/", "d", ":", "e", "/", "x">>,
     <<"/", "d", "/", "x">>,
     <<"/", "e", "/", "x">>,
     <<"/", "d", "/", "e", "/", "y">>}

BackupDir == <<"/", "r", "/", "Originals Backup", "/", "run">>

\* The originals on disk before the run, each with bytes of its own.
BackupFiles(first, second) ==
    Put(Put(<<>>, first, <<1, 1>>), second, <<1, 2>>)

\* One run backs up two of its originals, one after the other: ensureBackup
\* for the pipeline, step 4 of atomicWrite for the atomic writer.
FnBackup ==
    /\ fn.pc = "idle"
    /\ \E first \in BackupOriginals, second \in BackupOriginals :
         fn' = [pc |-> "ensureBackup", paths |-> <<first, second>>,
                result |-> <<createBackupFilePath(BackupDir, first), createBackupFilePath(BackupDir, second)>>,
                bak |-> <<bakPath(BackupDir, first), bakPath(BackupDir, second)>>,
                before |-> BackupFiles(first, second),
                files |-> ensureBackupFiles(ensureBackupFiles(BackupFiles(first, second), BackupDir, first),
                                            BackupDir, second)]

\* The caller has read the result.
FnReturn ==
    /\ fn.pc # "idle"
    /\ fn' = [pc |-> "idle"]

NextFn ==
    \/ FnResolve /\ FnFrame
    \/ FnAttempts /\ FnFrame
    \/ FnCommonBase /\ FnFrame
    \/ FnBackup /\ FnFrame
    \/ FnReturn /\ FnFrame

SpecFn == InitFn /\ [][NextFn]_vars

\* The input's directory and base name, read off its segments: the last
\* non-empty segment is the base name, the segments before it the directory.
fileSegments(p) == SelectSeq(segments(p), LAMBDA s : s # <<>>)

nameWithoutExtension(b) ==
    IF b = <<".", ".">> \/ \A i \in 2..Len(b) : b[i] # "." THEN b
    ELSE SubSeq(b, 1, SetMax({i \in 2..Len(b) : b[i] = "."}) - 1)

\* C25: resolveWebpOutputPath answers <dir>/Optimized/<name>.webp in
\* subfolder mode and <dir>/<name>.webp in replace mode, <dir> and <name>
\* being the input's directory and its base name without extension (paths
\* are compared as path.normalize leaves them).
C25_WebpOutputPath ==
    fn.pc = "resolveWebpOutputPath" =>
        LET segs == fileSegments(fn.inputPath)
            isAbsolute == fn.inputPath[1] = "/"
            dir == SubSeq(segs, 1, Len(segs) - 1)
            file == nameWithoutExtension(segs[Len(segs)]) \o <<".", "webp">>
            out == dir \o (IF fn.outputMode = "subfolder" THEN <<<<"Optimized">>>> ELSE <<>>)
                       \o <<file>>
            expected == joinSegments(normalizeString(out, <<>>, ~isAbsolute))
        IN  fn.result = (IF isAbsolute THEN <<"/">> ELSE <<>>) \o expected

C25_Witness ==
    /\ fn.pc = "resolveWebpOutputPath"
    /\ fn.outputMode = "subfolder"
    /\ fn.inputPath = <<"a", "/", "a", ".", "a">>
    /\ fn.result = <<"a", "/", "Optimized", "/", "a", ".", "webp">>

\* C26: getWebpQualityAttempts answers base, base+5 and base+10 clamped to
\* [1, cap], cap being 100 when nearLossless and 95 otherwise, without
\* duplicates, in increasing order: one to three values.
C26_WebpQualityAttempts ==
    fn.pc = "getWebpQualityAttempts" =>
        LET cap == IF fn.nearLossless THEN 100 ELSE 95
            clamp(v) == IF v < 1 THEN 1 ELSE IF v > cap THEN cap ELSE v
            wanted == {clamp(fn.baseQuality + d) : d \in {0, 5, 10}}
        IN  /\ {fn.result[k] : k \in DOMAIN fn.result} = wanted
            /\ Len(fn.result) = Cardinality(wanted)
            /\ Len(fn.result) \in 1..3
            /\ \A k \in 1..(Len(fn.result) - 1) : fn.result[k] < fn.result[k + 1]

C26_Witness ==
    /\ fn.pc = "getWebpQualityAttempts"
    /\ fn.nearLossless
    /\ fn.baseQuality = 95
    /\ fn.result = <<95, 100>>

\* C27: the candidate selected is one of the accepted candidates and none
\* of them is strictly smaller, whatever the order they were produced in;
\* nothing is selected exactly when no candidate was accepted.
C27_SmallestAcceptedWins ==
    sel.pc \in {"picked", "decided"} /\ sel.decision # "Missing optimizer binary" =>
        /\ sel.chosen.none <=> sel.candidates = <<>>
        /\ ~sel.chosen.none =>
             /\ \E k \in DOMAIN sel.candidates : sel.candidates[k] = sel.chosen
             /\ \A k \in DOMAIN sel.candidates : sel.candidates[k].bytes >= sel.chosen.bytes

C27_Witness ==
    /\ sel.pc = "picked"
    /\ Len(sel.candidates) = 3
    /\ sel.candidates[1].bytes = 2
    /\ sel.candidates[3].bytes = 1
    /\ sel.chosen.bytes = 1

smartSearchEnded ==
    /\ sel.pc \in {"built", "picked", "decided"}
    /\ usesSmartSearch(sel.builder, sel.settings)

\* C28: in smart mode with speed balanced the binary search ends within 6
\* iterations with its bounds crossed (min > max), for every pass/fail
\* pattern of the probes.
C28_SearchConverges ==
    (smartSearchEnded /\ sel.settings.optimizationSpeed = "balanced") =>
        /\ sel.i <= 6
        /\ sel.min > sel.max

\* C29: findOptimalQuality returns the probe of the lowest quality among
\* the probes that passed, returns null exactly when no probe passed, and
\* every probed quality lies within the initial bounds.
C29_LowestPassingProbe ==
    (sel.pc # "idle" /\ usesSmartSearch(sel.builder, sel.settings)) =>
        /\ sel.best.none <=> sel.passed = {}
        /\ sel.passed # {} =>
             /\ sel.bestQ \in sel.passed
             /\ \A q \in sel.passed : sel.bestQ <= q
             /\ sel.best.bytes = sel.bestQ
        /\ \A q \in sel.probed : sel.min0 <= q /\ q <= 95
        /\ smartSearchEnded =>
             sel.candidates = IF sel.best.none THEN <<>> ELSE <<sel.best>>

C29_Witness ==
    /\ smartSearchEnded
    /\ Cardinality(sel.passed) >= 2
    /\ Cardinality(sel.probed \ sel.passed) >= 2
    /\ \E q \in sel.probed \ sel.passed : q < sel.bestQ
    /\ sel.candidates = <<sel.best>>

pngquantFailed ==
    /\ sel.pc = "decided"
    /\ sel.builder = "png"
    /\ sel.decision # "Missing optimizer binary"
    /\ sel.failed \cap 2..Len(sel.ladder) # {}

allCandidatesAtLeastOriginal ==
    /\ sel.candidates # <<>>
    /\ \A k \in DOMAIN sel.candidates : sel.candidates[k].bytes >= sel.originalBytes

MaxCollideJobs == 2

Digits == <<"0", "1", "2", "3", "4", "5", "6", "7", "8", "9">>

\* path.join(parsed.dir, `${parsed.name}-${index}${parsed.ext}`) for a base
\* path <dir>/<name><ext>.
collisionCandidate(basePath, index) ==
    SubSeq(basePath, 1, Len(basePath) - 1) \o <<"-", Digits[index + 1]>>
        \o <<basePath[Len(basePath)]>>

CollideBase(name) == <<"/", "r", "/", "Optimized", "/", name, ".jpg">>

\* The first of base, base-2, base-3, ... that is not in f.
RECURSIVE firstAbsent(_, _, _)
firstAbsent(f, basePath, index) ==
    LET candidate == IF index = 1 THEN basePath ELSE collisionCandidate(basePath, index)
    IN  IF Exists(f, candidate) THEN firstAbsent(f, basePath, index + 1) ELSE candidate

InitCollide ==
    /\ IdleJob
    /\ IdleWrite
    /\ IdleDirect
    /\ IdleRun
    /\ IdleFile
    /\ IdleSelect
    /\ IdleWatch
    /\ IdleStable
    /\ IdlePool
    /\ IdleSubfolder
    /\ IdleRunIds
    /\ IdleFn
    /\ IdleIndex
    /\ col = [pc |-> "idle"]

\* The run starts: each job has rendered its output name and enters
\* ensureCollisionFree with candidate = basePath, index = 2.
ColStart ==
    /\ col.pc = "idle"
    /\ \E n \in 1..MaxCollideJobs, earlier \in SUBSET {CollideBase("x"), collisionCandidate(CollideBase("x"), 2)} :
         \E names \in [1..n -> {"x", "y"}] :
            /\ fs' = [p \in earlier |-> OldBytes]
            /\ col' = [pc |-> "running",
                       jobs |-> [j \in 1..n |->
                                   [pc |-> "resolve", basePath |-> CollideBase(names[j]),
                                    candidate |-> CollideBase(names[j]), index |-> 2,
                                    free |-> TRUE]]]

\* One turn of the while loop of ensureCollisionFree: `await pathExists`.
ColProbe(j) ==
    /\ col.pc = "running"
    /\ j \in DOMAIN col.jobs
    /\ col.jobs[j].pc = "resolve"
    /\ LET job == col.jobs[j]
       IN  IF Exists(fs, job.candidate)
           THEN col' = [col EXCEPT !.jobs[j].candidate = collisionCandidate(job.basePath, job.index),
                                   !.jobs[j].index = @ + 1]
           ELSE col' = [col EXCEPT !.jobs[j].pc = "write",
                                   !.jobs[j].free = (job.candidate = firstAbsent(fs, job.basePath, 1))]
    /\ UNCHANGED fs

\* writeValidatedAtomic(finalNamedPath, applied.buffer, applied.format).
ColWrite(j) ==
    /\ col.pc = "running"
    /\ j \in DOMAIN col.jobs
    /\ col.jobs[j].pc = "write"
    /\ fs' = Put(fs, col.jobs[j].candidate, <<1, j>>)
    /\ col' = [col EXCEPT !.jobs[j].pc = "done"]

NextCollide ==
    \/ ColStart /\ CollideFrame
    \/ (\E j \in 1..MaxCollideJobs : ColProbe(j)) /\ CollideFrame
    \/ (\E j \in 1..MaxCollideJobs : ColWrite(j)) /\ CollideFrame

SpecCollide == InitCollide /\ [][NextCollide]_vars

\* C31: the path ensureCollisionFree returns is the first of base, base-2,
\* base-3, ... that does not exist, and no two jobs of a run write the same
\* output path, also when they run at the same time in different workers.
C31_NoSharedOutputPath ==
    col.pc = "running" =>
        /\ \A j \in DOMAIN col.jobs : col.jobs[j].free
        /\ \A i, j \in DOMAIN col.jobs :
             (i # j /\ col.jobs[i].pc = "done" /\ col.jobs[j].pc = "done")
             => col.jobs[i].candidate # col.jobs[j].candidate

\* d is a directory above the file p: the names of d are the first names of p.
isAncestorDir(d, p) ==
    LET ds == fileSegments(d)
        ps == fileSegments(p)
    IN  Len(ds) < Len(ps) /\ SubSeq(ps, 1, Len(ds)) = ds

\* C32: the common root of a run is a directory above every input path, and
\* the longest such directory.
C32_CommonRootIsLongestAncestor ==
    fn.pc = "getCommonBaseDir" =>
        /\ \A i \in DOMAIN fn.paths : isAncestorDir(fn.result, fn.paths[i])
        /\ \A n \in 1..(Len(fn.paths[1]) - 1) :
             LET d == SubSeq(fn.paths[1], 1, n)
             IN  (d[n] # "/" /\ fn.paths[1][n + 1] = "/"
                  /\ \A i \in DOMAIN fn.paths : isAncestorDir(d, fn.paths[i]))
                 => Len(fileSegments(d)) <= Len(fileSegments(fn.result))

(***************************************************************************)
(* SpecIndex: watch/watcher.ts ProcessedIndexStore.  markProcessed is      *)
(* called by the lifecycles; the debounce timer and close() call save(),   *)
(* which awaits fs.mkdir and then fs.writeFile.  The index maps a path to  *)
(* a fingerprint; file is the index written in processed-index.json.       *)
(***************************************************************************)
MaxMarks == 3

NoSave == [pc |-> "none", content |-> <<>>]

InitIndex ==
    /\ IdleJob
    /\ IdleWrite
    /\ IdleDirect
    /\ IdleRun
    /\ IdleFile
    /\ IdleSelect
    /\ IdleWatch
    /\ IdleStable
    /\ IdlePool
    /\ IdleSubfolder
    /\ IdleRunIds
    /\ IdleFn
    /\ IdleCollide
    /\ pix = [pc |-> "running", index |-> <<>>, dirty |-> FALSE, saveTimer |-> FALSE,
              armed |-> FALSE, saves |-> [who \in {"timer", "close"} |-> NoSave],
              file |-> <<>>, marks |-> 0, closed |-> "no"]

\* scheduleSave: a timer is set unless saveTimer holds one.
scheduleSave(s) == IF s.saveTimer THEN s ELSE [s EXCEPT !.saveTimer = TRUE, !.armed = TRUE]

\* markProcessed(filePath, fingerprint).
IxMarkProcessed ==
    /\ pix.pc = "running"
    /\ pix.closed = "no"
    /\ pix.marks < MaxMarks
    /\ \E filePath \in {"a", "b"}, fingerprint \in {1, 2} :
         pix' = scheduleSave([pix EXCEPT !.index = Put(@, filePath, fingerprint),
                                         !.dirty = TRUE, !.marks = @ + 1])

\* save() up to its first await: nothing to do when not dirty.
saveBegins(s, who) ==
    IF ~s.dirty THEN s ELSE [s EXCEPT !.saves[who] = [pc |-> "mkdir", content |-> <<>>]]

\* The timer callback runs: `await this.save(); this.saveTimer = null`.
IxTimerFires ==
    /\ pix.pc = "running"
    /\ pix.armed
    /\ LET s == saveBegins([pix EXCEPT !.armed = FALSE], "timer")
       IN  pix' = IF s.saves["timer"].pc = "none" THEN [s EXCEPT !.saveTimer = FALSE] ELSE s

\* WatchFolderService.close(): `await this.indexStore.save()`.
IxClose ==
    /\ pix.pc = "running"
    /\ pix.closed = "no"
    /\ LET s == saveBegins(pix, "close")
       IN  pix' = [s EXCEPT !.closed = IF s.saves["close"].pc = "none" THEN "done" ELSE "saving"]

\* fs.mkdir has resolved: JSON.stringify(data) reads the index as it is now
\* and fs.writeFile starts.
IxMkdirDone(who) ==
    /\ pix.pc = "running"
    /\ pix.saves[who].pc = "mkdir"
    /\ pix' = [pix EXCEPT !.saves[who] = [pc |-> "write", content |-> pix.index]]

\* fs.writeFile has resolved: `this.dirty = false`, and the caller goes on.
IxWriteDone(who) ==
    /\ pix.pc = "running"
    /\ pix.saves[who].pc = "write"
    /\ pix' = [pix EXCEPT !.saves[who] = NoSave,
                          !.file = pix.saves[who].content,
                          !.dirty = FALSE,
                          !.saveTimer = IF who = "timer" THEN FALSE ELSE @,
                          !.closed = IF who = "close" THEN "done" ELSE @]

NextIndex ==
    \/ IxMarkProcessed /\ IndexFrame
    \/ IxTimerFires /\ IndexFrame
    \/ IxClose /\ IndexFrame
    \/ (\E who \in {"timer", "close"} : IxMkdirDone(who)) /\ IndexFrame
    \/ (\E who \in {"timer", "close"} : IxWriteDone(who)) /\ IndexFrame

SpecIndex == InitIndex /\ [][NextIndex]_vars

indexAtRest ==
    /\ pix.pc = "running"
    /\ ~pix.armed
    /\ \A who \in {"timer", "close"} : pix.saves[who].pc = "none"

\* C33: once the debounce timer has fired and its save has finished, or
\* close() has run, processed-index.json equals the index in memory,
\* whatever markProcessed calls came while a save was in progress.
C33_IndexIsPersisted ==
    (indexAtRest /\ (pix.closed = "done" \/ ~pix.saveTimer)) => pix.file = pix.index

\* C34: the promise of run(task) resolves with the response the worker
\* produced for that task, and a worker is marked free only after it has
\* finished its current task, whatever messages the worker posts.
C34_ResponseOfSameTask ==
    wp.pc = "running" =>
        /\ \A i \in DOMAIN wp.answers :
             wp.answers[i].kind # "none" => wp.answers[i] = [kind |-> "response", inputPath |-> i]
        /\ \A t \in DOMAIN wp.work :
             (wp.work[t].stage # "answered" /\ wp.pool.workers[wp.work[t].worker].alive)
             => wp.pool.workers[wp.work[t].worker].current.file = t

\* C35: the pool is work-conserving: when the queue is not empty no worker
\* is idle, and a worker is busy exactly when it holds a current task.
C35_WorkConserving ==
    wp.pc = "running" =>
        /\ wp.pool.queue # <<>> => \A w \in DOMAIN wp.pool.workers : wp.pool.workers[w].busy
        /\ \A w \in DOMAIN wp.pool.workers :
             wp.pool.workers[w].busy <=> wp.pool.workers[w].current # NoJob
        /\ \A v, w \in DOMAIN wp.pool.workers :
             (v # w /\ wp.pool.workers[v].busy /\ wp.pool.workers[w].busy)
             => wp.pool.workers[v].current # wp.pool.workers[w].current

C35_Witness ==
    /\ wp.pc = "running"
    /\ Len(wp.pool.queue) >= 1
    /\ Len(wp.pool.workers) = 2
    /\ \E i \in DOMAIN wp.posts : wp.posts[i].by = "message"
    /\ \E w \in DOMAIN wp.pool.workers : ~wp.pool.workers[w].alive
    /\ \E i \in DOMAIN wp.answers : wp.answers[i].kind = "log"

\* C36: in a run every input file is dispatched to the pool at most once
\* and gets exactly one terminal status (Done, Skipped, Failed or
\* Cancelled): a file is set Processing only from Pending, a terminal status
\* is never replaced, and when executeRun has settled every file has one.
C36_OneTerminalStatusPerFile ==
    [][ /\ (run.pc \notin {"idle", "resolve"}) =>
             \A f \in 1..run.total :
                /\ (run'.fileStatus[f] = "Processing" /\ run.fileStatus[f] # "Processing")
                     => run.fileStatus[f] = "Pending"
                /\ run.fileStatus[f] \in FileStatusTerminal
                     => run'.fileStatus[f] = run.fileStatus[f]
        /\ (run'.pc \in {"returned", "rejected"} /\ run.pc # run'.pc)
             => \A f \in 1..run'.total : run'.fileStatus[f] \in FileStatusTerminal ]_vars


\* C38: two distinct originals backed up in one run get distinct backup
\* paths, from createBackupFilePath and from the atomic writer alike, so
\* after both backups each backup file holds the bytes of its own original.
C38_BackupPathsInjective ==
    (fn.pc = "ensureBackup" /\ fn.paths[1] # fn.paths[2]) =>
        /\ fn.result[1] # fn.result[2]
        /\ fn.bak[1] # fn.bak[2]
        /\ \A k \in 1..2 : fn.files[fn.result[k]] = fn.before[fn.paths[k]]


\* C39: a method called on a job whose status is success, failed, skipped
\* or cancelled emits no 'change' event.
C39_NoChangeAfterTerminal ==
    [][ jsm.status \in Terminal => ~jsmCall'.emitted ]_vars

====
